---- MODULE Spec2Model ----
(***************************************************************************)
(* Planning-poker session of estimate-up: one authoritative host           *)
(* (PlanningPokerHost), its page controls (+page.svelte), the guests'      *)
(* replicas (PlanningPokerGuest), the per-participant WebRTCConnection     *)
(* objects with their ConnectionMonitor, and the data-channel messages in  *)
(* flight.  The network engine (RTCPeerConnection) is the environment: it  *)
(* moves a connection's connectionState / iceConnectionState / data        *)
(* channel readyState nondeterministically.                                *)
(***************************************************************************)
EXTENDS Integers, Sequences, FiniteSets, TLC

\* ------------------------------------------------------------- bounds ---
MaxCalls == 2
MaxRound == 2
MaxInbox == 2
MaxToHost == 1
MaxTimers == 1
MaxName == 2
MaxReconnectTimers == 4
MaxCandidates == 2
GatherSteps == 3
MaxAnswers == 2
MaxAnswerCalls == 3

\* ----------------------------------------------------- program constants
GraceDisconnectedMs == 10000
GraceFailedMs == 15000
maxReconnectAttempts == 3
reconnectDelay == 1000
gatherTimeout == 15000
LinkExpiryMs == 300000

\* ---------------------------------------------------------- universes ---
Guests == {"g1", "g2"}
HostId == "h"
\* The participant ids an answer code can carry: participantId is whatever
\* the code says.
Ids == Guests \cup {HostId}
PlaceholderHostId == "host"
NoCard == "none"
\* room.results is absent (undefined / null) or holds one GameResults.
NoResults == <<>>
\* The guest's `room` field before joinRoomFromLink: null.
NoRoom ==
    [hostId |-> "", participants |-> <<>>, gameState |-> "null", cards |-> <<>>,
     currentRound |-> 0, results |-> NoResults]
FoodEmojis == {"pizza", "burger"}
CardChoices == {"3", "?"}
CallIds == 1..MaxCalls

\* --------------------------------------------------------- game store ---
generateCardDeck(food) ==
    <<"1/4", "1/2", "1", "2", "3", "4", "5", "6", "7", "8", "9", "?", food>>

isFoodEmoji(card) == card \in FoodEmojis

\* A vote as a number of hundredths ('1/4' = 0.25, '1/2' = 0.5, else parseFloat).
VoteValue(vote) ==
    CASE vote = "1/4" -> 25
      [] vote = "1/2" -> 50
      [] vote = "1" -> 100
      [] vote = "2" -> 200
      [] vote = "3" -> 300
      [] vote = "4" -> 400
      [] vote = "5" -> 500
      [] vote = "6" -> 600
      [] vote = "7" -> 700
      [] vote = "8" -> 800
      [] vote = "9" -> 900

RECURSIVE SumSeq(_)
SumSeq(s) == IF s = <<>> THEN 0 ELSE Head(s) + SumSeq(Tail(s))

\* Number.prototype.toFixed(1) of num/den hundredths, as a number of tenths:
\* the nearest tenth, the larger one on a tie.
toFixed1(num, den) == (2 * num + 10 * den) \div (20 * den)

\* A calculateStats without the zero case: the average of no numeric
\* votes is 0/0, not a number, written -1.
calculateStatsNoZeroCase(votes) ==
    LET IsNumeric(v) == v # "?" /\ ~isFoodEmoji(v)
        numeric == SelectSeq(votes, IsNumeric)
        numericVotes == [i \in 1..Len(numeric) |-> VoteValue(numeric[i])]
        total == SumSeq(numericVotes)
        IsQuestion(v) == v = "?"
    IN  [ average |-> IF Len(numericVotes) > 0
                        THEN toFixed1(total, Len(numericVotes)) ELSE -1,
          total |-> toFixed1(total, 1),
          numericCount |-> Len(numericVotes),
          questionCount |-> Len(SelectSeq(votes, IsQuestion)),
          foodCount |-> Len(SelectSeq(votes, isFoodEmoji)) ]

calculateStats(votes) ==
    LET IsNumeric(v) == v # "?" /\ ~isFoodEmoji(v)
        numeric == SelectSeq(votes, IsNumeric)
        numericVotes == [i \in 1..Len(numeric) |-> VoteValue(numeric[i])]
        total == SumSeq(numericVotes)
        IsQuestion(v) == v = "?"
    IN  [ average |-> IF Len(numericVotes) > 0
                        THEN toFixed1(total, Len(numericVotes)) ELSE 0,
          total |-> toFixed1(total, 1),
          numericCount |-> Len(numericVotes),
          questionCount |-> Len(SelectSeq(votes, IsQuestion)),
          foodCount |-> Len(SelectSeq(votes, isFoodEmoji)) ]

\* ------------------------------------------------------- Map helpers ----
\* A JavaScript Map keyed by id, kept as the sequence of its values in
\* insertion order.
MapHas(m, id) == \E i \in 1..Len(m) : m[i].id = id

MapIndex(m, id) == CHOOSE i \in 1..Len(m) : m[i].id = id

MapGet(m, id) == m[MapIndex(m, id)]

\* A set that keeps one slot after the first entry.
MapSetOneSlot(m, entry) ==
    IF Len(m) > 1 THEN [m EXCEPT ![Len(m)] = entry] ELSE Append(m, entry)

\* Map.prototype.set: replaces the value in place when the key exists,
\* appends otherwise.
MapSet(m, entry) ==
    IF MapHas(m, entry.id)
    THEN [m EXCEPT ![MapIndex(m, entry.id)] = entry]
    ELSE Append(m, entry)

\* A delete that takes every non-host entry with it.
MapDeleteAllGuests(m, id) == SelectSeq(m, LAMBDA e : e.isHost)

\* A delete that leaves the map as it is.
MapDeleteNothing(m, id) == m

MapDelete(m, id) ==
    LET Keep(e) == e.id # id IN SelectSeq(m, Keep)

MapIds(m) == {m[i].id : i \in 1..Len(m)}

\* new Map(list.map(p => [p.id, p]))
RECURSIVE MapFromList(_)
MapFromList(list) ==
    IF list = <<>> THEN <<>>
    ELSE MapSet(MapFromList(SubSeq(list, 1, Len(list) - 1)), list[Len(list)])

VARIABLES
    participants,   \* host: Map<string, User>, values in insertion order
    connections,    \* host: Map<string, WebRTCConnection>: participant id -> connection id, 0 = none
    room,           \* host: gameState, cards, currentRound, results
    page,           \* host page: the control flags computed at the last room update
    calls,          \* handleNewParticipant invocations and where each one stands
    conn,           \* WebRTCConnection objects created by the calls, with their monitor
    evictTimers,    \* pending setTimeout(removeParticipant) per participant id
    inbox,          \* data-channel messages in flight on the connection mapped for each participant id
    toHost,         \* data-channel messages in flight to the host
    guestRoom,      \* each guest's replica (room), NoRoom before joinRoomFromLink
    downFor,        \* per connection: ms since it last reported 'disconnected'
    fresh,          \* per guest: how its replica stands to the host's last state broadcast
    joinResult,     \* per guest: the age of the join code it last used and what joinRoomFromLink returned
    codec,          \* SignalingManager: a descriptor, its code and what the code decodes to
    monitor,        \* one ConnectionMonitor: its connection's state, its attempts and its reconnect timers
    gather,         \* one ICEManager: gathering state, candidates collected, a waitForCandidates call
    peer            \* one WebRTCConnection's signalling: signalling state, remote description and candidates

vars == <<participants, connections, room, page, calls, conn, evictTimers,
          inbox, toHost, guestRoom, downFor, fresh, joinResult, codec, monitor,
          gather, peer>>

\* ------------------------------------------------------- connection.ts --
\* A connection that no call has created yet.
NoConnection ==
    [cs |-> "none", ice |-> "none", dc |-> "none",
     reconnectAttempts |-> 0, connectionTimeout |-> FALSE]

\* new WebRTCConnection() followed by createDataChannel(): the monitor's
\* connect timeout is armed by the constructor.
NewConnection ==
    [cs |-> "new", ice |-> "new", dc |-> "connecting",
     reconnectAttempts |-> 0, connectionTimeout |-> TRUE]

\* WebRTCConnection.isConnected
isConnected(c) ==
    /\ (c.cs = "connected" \/ c.ice = "connected")
    /\ c.dc \in {"open", "connecting", "undefined"}

\* WebRTCConnection.sendMessage returns true iff the data channel is open.
sendMessage(c) == c.dc = "open"

\* WebRTCConnection.close(): closes the channel and the peer connection; the
\* monitor's timer is left to fire.
close(c) == [c EXCEPT !.cs = "closed", !.ice = "closed", !.dc = "closed"]

\* The establishment test of the admission loop and of
\* handleConnectionStateChange.
relaxedConnected(c) ==
    c.ice = "connected" /\ (c.dc = "open" \/ c.dc = "connecting")

\* --------------------------------------------------------------- wire ---
\* JSON.stringify of a User: the fields of the interface; an undefined
\* selectedCard is left out, which the reader sees as no selection.
ToWire(user) ==
    [id |-> user.id, isHost |-> user.isHost, connected |-> user.connected,
     selectedCard |-> user.selectedCard]

\* Array.from(participants.values()) as serialised in a message.
WireList(parts) == [i \in 1..Len(parts) |-> ToWire(parts[i])]

\* The message broadcastGameState and sendInitialGameState build.
GameStateMessage(parts, rm) ==
    [type |-> "game_state_changed",
     gameState |-> rm.gameState,
     participants |-> WireList(parts),
     currentRound |-> rm.currentRound,
     cards |-> rm.cards,
     results |-> rm.results]

UserMessage(kind, user) == [type |-> kind, user |-> ToWire(user)]

\* One message handed to the channel towards guest g.  The channel is
\* ordered and partially reliable (maxRetransmits: 3): with MaxInbox
\* messages already in flight the oldest one is lost.
Deliver(inb, g, msg) ==
    [inb EXCEPT ![g] = IF Len(@) < MaxInbox THEN Append(@, msg)
                       ELSE Append(Tail(@), msg)]

\* PlanningPokerHost.broadcastToAll: every mapped connection other than
\* excludeId's that passes isConnected is sent the message, and the send
\* succeeds when its channel is open.
Recipients(conns, cn, excludeId) ==
    {g \in Ids : /\ conns[g] # 0
                    /\ g # excludeId
                    /\ isConnected(cn[conns[g]])
                    /\ sendMessage(cn[conns[g]])}

RECURSIVE DeliverAll(_, _, _)
DeliverAll(inb, gs, msg) ==
    IF gs = {} THEN inb
    ELSE LET g == CHOOSE x \in gs : TRUE
         IN  DeliverAll(Deliver(inb, g, msg), gs \ {g}, msg)

\* A broadcast that does not leave out excludeId.
broadcastIncludingSender(inb, msg, excludeId, conns, cn) ==
    DeliverAll(inb, Recipients(conns, cn, "nobody"), msg)

broadcastToAll(inb, msg, excludeId, conns, cn) ==
    DeliverAll(inb, Recipients(conns, cn, excludeId), msg)

\* A state broadcast that sends nothing.
broadcastNothing(inb, parts, rm, conns, cn) == inb

broadcastGameState(inb, parts, rm, conns, cn) ==
    broadcastToAll(inb, GameStateMessage(parts, rm), "nobody", conns, cn)

\* ------------------------------------------------------------- page -----
\* +page.svelte areAllCardsSelected (the page's own, not the host's).
pageAreAllCardsSelected(parts) ==
    LET NonHost(p) == ~p.isHost
        nonHostParticipants == SelectSeq(parts, NonHost)
    IN  /\ Len(nonHostParticipants) > 0
        /\ \A i \in 1..Len(nonHostParticipants) :
               nonHostParticipants[i].selectedCard # NoCard

\* Control flags whose reveal flag looks at the phase only.
updateRoomRevealUngated(parts, rm) ==
    [canStartVoting |-> rm.gameState = "waiting" /\ Len(parts) > 1,
     canRevealCards |-> rm.gameState = "voting",
     canNextRound |-> rm.gameState = "revealed"]

\* host.onRoomUpdate callback `room = updatedRoom`: the assignment makes the
\* page recompute its reactive control flags from the room as it is then.
updateRoom(parts, rm) ==
    [canStartVoting |-> rm.gameState = "waiting" /\ Len(parts) > 1,
     canRevealCards |-> rm.gameState = "voting" /\ pageAreAllCardsSelected(parts),
     canNextRound |-> rm.gameState = "revealed"]

\* PlanningPokerHost.areAllCardsSelected
areAllCardsSelected(parts) ==
    LET Counted(p) == ~p.isHost /\ p.connected
        nonHostParticipants == SelectSeq(parts, Counted)
    IN  /\ Len(nonHostParticipants) > 0
        /\ \A i \in 1..Len(nonHostParticipants) :
               nonHostParticipants[i].selectedCard # NoCard

\* ------------------------------------------------------------- host -----
HostUser ==
    [id |-> HostId, isHost |-> TRUE, connected |-> TRUE, selectedCard |-> NoCard,
     obj |-> 0]

\* The User object handleNewParticipant creates in call k.
NewParticipant(pid, k) ==
    [id |-> pid, isHost |-> FALSE, connected |-> FALSE, selectedCard |-> NoCard,
     obj |-> k]

\* A loop that clears nothing.
KeepSelections(parts) == parts

\* The loops of changeGameState('voting') and nextRound over the roster.
ClearSelections(parts) ==
    [i \in 1..Len(parts) |->
        IF ~parts[i].isHost THEN [parts[i] EXCEPT !.selectedCard = NoCard]
        ELSE parts[i]]

\* PlanningPokerHost.calculateResults
calculateResults(parts) ==
    LET Voted(p) == ~p.isHost /\ p.selectedCard # NoCard
        voters == SelectSeq(parts, Voted)
        votes == [i \in 1..Len(voters) |-> voters[i].selectedCard]
        stats == calculateStats(votes)
    IN  [average |-> stats.average, total |-> stats.total, votes |-> votes]

\* The age of a disconnection is kept only while the connection stays
\* disconnected.
AgeKept(cn) == [c \in CallIds |-> IF cn[c].cs = "disconnected" THEN downFor[c] ELSE 0]

\* ------------------------------------------------------- ghost helpers --
AllStale == [g \in Guests |-> "stale"]

AfterBroadcast(recipients) ==
    [g \in Guests |-> IF g \in recipients THEN "inflight" ELSE "stale"]

\* ---------------------------------------------------------------- Init --
\* The fields of AnswerData, and a decoded answer code as the set of the
\* fields it holds (with truthy values).
AnswerFields == {"answer", "iceCandidates", "participantName", "participantId"}

UnusedCall ==
    [pid |-> "", pc |-> "unused", user |-> NewParticipant("", 0), rank |-> 0,
     code |-> {}]

\* No descriptor has been handed to SignalingManager.
NoCodec == [kind |-> "none", name |-> <<>>, stage |-> "none", code |-> <<>>, decoded |-> <<>>]

\* An ICEManager as constructed on a new peer connection: nothing
\* gathered, no waitForCandidates call made.  elapsed is the time since the
\* call armed its timer, returned what the call resolved with.
NewICEManager ==
    [iceGatheringState |-> "new", candidates |-> 0, gatheringComplete |-> FALSE,
     wait |-> "idle", timer |-> FALSE, elapsed |-> 0, returned |-> 0]

\* The signalling side of a new WebRTCConnection: no description set, no
\* remote candidate added.  handled counts the handleAnswerWithCandidates
\* calls and last is how the last one ended.
NewPeer ==
    [signalingState |-> "stable", cs |-> "new", remoteDescription |-> 0,
     remoteCandidates |-> 0, handled |-> 0, last |-> "none"]

\* A ConnectionMonitor as constructed, on a peer connection in state
\* 'new': no attempt counted, no reconnect timer pending and the connect
\* timeout started.  exhausted records that attemptReconnect has given up
\* since the last 'connected' report or manualReconnect; connectionTimeout
\* is TRUE while the connect timeout is pending; timeoutReports counts the
\* calls of handleConnectionFailure made by the connect timeout.
NewMonitor ==
    [cs |-> "new", reconnectAttempts |-> 0, timers |-> <<>>, exhausted |-> FALSE,
     connectionTimeout |-> TRUE, timeoutReports |-> 0]

\* A guest that has not called joinRoomFromLink.
NotJoined == [linkAge |-> 0, outcome |-> "none"]

Init ==
    /\ participants = <<HostUser>>
    /\ connections = [g \in Ids |-> 0]
    /\ \E food \in FoodEmojis :
          room = [gameState |-> "waiting", cards |-> generateCardDeck(food),
                  currentRound |-> 1, results |-> NoResults]
    /\ page = updateRoom(participants, room)
    /\ calls = [k \in CallIds |-> UnusedCall]
    /\ conn = [k \in CallIds |-> NoConnection]
    /\ evictTimers = [g \in Ids |-> <<>>]
    /\ inbox = [g \in Ids |-> <<>>]
    /\ toHost = <<>>
    /\ guestRoom = [g \in Guests |-> NoRoom]
    /\ downFor = [k \in CallIds |-> 0]
    /\ fresh = AllStale
    /\ joinResult = [g \in Guests |-> NotJoined]
    /\ monitor = NewMonitor
    /\ gather = NewICEManager
    /\ peer = NewPeer
    /\ codec = NoCodec

\* ----------------------------------------------------------- guest join -
\* A joinRoomFromLink that takes a code of any age.
joinRoomFromLinkNoExpiry(g, linkAge) ==
    /\ guestRoom' = [guestRoom EXCEPT ![g] =
            [hostId |-> PlaceholderHostId, participants |-> <<>>,
             gameState |-> "waiting", cards |-> <<>>, currentRound |-> 1,
             results |-> NoResults]]
    /\ joinResult' = [joinResult EXCEPT ![g] =
                         [linkAge |-> linkAge, outcome |-> "answerCode"]]

\* PlanningPokerGuest.joinRoomFromLink with a well-formed join code whose
\* timestamp lies linkAge ms before Date.now(): an expired code makes it
\* throw before the answer is created and before the replica is set;
\* otherwise the answer code is returned and the replica starts as an empty
\* waiting room.
joinRoomFromLink(g, linkAge) ==
    IF linkAge > LinkExpiryMs
    THEN /\ joinResult' = [joinResult EXCEPT ![g] =
                              [linkAge |-> linkAge, outcome |-> "error"]]
         /\ UNCHANGED guestRoom
    ELSE /\ guestRoom' = [guestRoom EXCEPT ![g] =
                 [hostId |-> PlaceholderHostId, participants |-> <<>>,
                  gameState |-> "waiting", cards |-> <<>>, currentRound |-> 1,
                  results |-> NoResults]]
         /\ joinResult' = [joinResult EXCEPT ![g] =
                              [linkAge |-> linkAge, outcome |-> "answerCode"]]

\* The page joins once per guest object, with a code of the given age.
JoinRoomFromLinkAged(g, linkAge) ==
    /\ guestRoom[g] = NoRoom
    /\ joinRoomFromLink(g, linkAge)
    /\ UNCHANGED <<gather, peer, monitor, codec, participants, connections, room, page, calls, conn, evictTimers,
                   inbox, toHost, downFor, fresh>>

\* joinRoomFromLink with a join code just created.
JoinRoomFromLink(g) == JoinRoomFromLinkAged(g, 0)

\* ------------------------------------------------------------ admission -
\* The User object of a roster entry lives on in the call that created it
\* when the entry is replaced or deleted.
Freeze(cl, parts, id) ==
    IF MapHas(parts, id) /\ MapGet(parts, id).obj # 0
    THEN [cl EXCEPT ![MapGet(parts, id).obj].user = MapGet(parts, id)]
    ELSE cl

\* The `participant` local of call k: the roster's object while it is there.
LocalParticipant(k) ==
    IF MapHas(participants, calls[k].pid) /\ MapGet(participants, calls[k].pid).obj = k
    THEN MapGet(participants, calls[k].pid)
    ELSE calls[k].user

NextCall == CHOOSE k \in CallIds : calls[k].pc = "unused" /\ \A j \in 1..(k - 1) : calls[j].pc # "unused"

\* SignalingManager.validateAnswerCode of a code that decodes to these
\* fields: data.answer && data.participantName && data.participantId.
validateAnswerCode(fields) == {"answer", "participantName", "participantId"} \subseteq fields

\* handleNewParticipant up to its first await, for an answer code that
\* carries participant id g (made by guest g, or by some guest that wrote
\* another id into it) and decodes to the given fields: the validation, the
\* existing-connection check, the new connection, the roster and
\* connection-map entries.
handleNewParticipant(g, fields) ==
    /\ IF g \in Guests THEN guestRoom[g] # NoRoom
       ELSE \E maker \in Guests : guestRoom[maker] # NoRoom
    /\ \E k \in CallIds : calls[k].pc = "unused"
    /\ LET k == NextCall
           old == connections[g]
       IN  IF ~validateAnswerCode(fields)
           THEN /\ calls' = [calls EXCEPT ![k] = [@ EXCEPT !.pc = "invalid", !.code = fields]]
                /\ UNCHANGED <<participants, connections, conn, fresh>>
           ELSE IF old # 0 /\ isConnected(conn[old])
           THEN /\ calls' = [calls EXCEPT ![k] = [@ EXCEPT !.pid = g, !.pc = "returned",
                                                            !.code = fields]]
                /\ UNCHANGED <<participants, connections, conn, fresh>>
           ELSE /\ conn' = [c \in CallIds |->
                              IF c = k THEN NewConnection
                              ELSE IF c = old THEN close(conn[c])
                              ELSE conn[c]]
                /\ participants' = MapSet(participants, NewParticipant(g, k))
                /\ connections' = [connections EXCEPT ![g] = k]
                /\ calls' = [Freeze(calls, participants, g) EXCEPT
                               ![k] = [pid |-> g, pc |-> "offer",
                                       user |-> NewParticipant(g, k), rank |-> 0,
                                       code |-> fields]]
                /\ fresh' = AllStale
    /\ downFor' = AgeKept(conn')
    /\ UNCHANGED <<gather, peer, monitor, codec, joinResult, room, page, evictTimers, inbox, toHost, guestRoom>>

\* handleNewParticipant with the answer code joinRoomFromLink returned.
HandleNewParticipant(g) == handleNewParticipant(g, AnswerFields)

\* createOfferWithCandidates and handleAnswerWithCandidates have returned:
\* the answer is applied and the engine starts connecting, unless the
\* connection was closed meanwhile (signalling state not have-local-offer,
\* and handleAnswerWithCandidates returns before it looks at the
\* candidates).
NegotiationDone(k) ==
    /\ calls[k].pc = "offer"
    /\ "iceCandidates" \in calls[k].code \/ conn[k].cs = "closed"
    /\ calls' = [calls EXCEPT ![k].pc = "poll"]
    /\ conn' = [conn EXCEPT ![k] =
                  IF @.cs = "closed" THEN @
                  ELSE [@ EXCEPT !.cs = "connecting", !.ice = "checking"]]
    /\ UNCHANGED <<gather, peer, monitor, codec, joinResult, participants, connections, room, page, evictTimers, inbox, toHost, guestRoom, downFor, fresh>>

\* createOffer / setLocalDescription / setRemoteDescription rejects: the
\* catch block rethrows and nothing is undone.
NegotiationThrows(k) ==
    /\ calls[k].pc = "offer"
    /\ calls' = [calls EXCEPT ![k].pc = "thrown"]
    /\ UNCHANGED <<gather, peer, monitor, codec, joinResult, participants, connections, room, page, conn, evictTimers, inbox, toHost, guestRoom, downFor, fresh>>

\* The answer code has no iceCandidates: handleAnswerWithCandidates applies
\* the answer, then throws on iceCandidates.length; the catch block
\* rethrows and nothing is undone.
CandidatesMissing(k) ==
    /\ calls[k].pc = "offer"
    /\ "iceCandidates" \notin calls[k].code
    /\ conn[k].cs # "closed"
    /\ calls' = [calls EXCEPT ![k].pc = "thrown"]
    /\ conn' = [conn EXCEPT ![k] = [@ EXCEPT !.cs = "connecting", !.ice = "checking"]]
    /\ UNCHANGED <<gather, peer, monitor, codec, joinResult, participants, connections, room, page, evictTimers,
                   inbox, toHost, guestRoom, downFor, fresh>>

\* sendInitialGameState(pid): needs the mapped connection to pass
\* isConnected and the roster entry to exist; the send succeeds on an open
\* channel.
sendInitialGameState(inb, pid, parts, rm, conns, cn) ==
    IF /\ conns[pid] # 0
       /\ isConnected(cn[conns[pid]])
       /\ MapHas(parts, pid)
       /\ sendMessage(cn[conns[pid]])
    THEN Deliver(inb, pid, GameStateMessage(parts, rm))
    ELSE inb

\* The place of a call in the order in which calls see their connection
\* established.
Rank == Cardinality({j \in CallIds : calls[j].rank > 0}) + 1

\* The admission loop sees the connection established: the initial state
\* is scheduled, user_joined is broadcast and the page is told.
\* scheduleInitialGameState sends at once when the mapped connection passes
\* isConnected; the mapped connection is the call's own here (a later call
\* for the same id has closed this one, a closed one is never established),
\* so its 100 ms retry is never armed.
PollEstablished(k) ==
    /\ calls[k].pc = "poll"
    /\ isConnected(conn[k]) \/ relaxedConnected(conn[k])
    /\ LET pid == calls[k].pid
           mapped == connections[pid]
           sendNow == mapped # 0 /\ isConnected(conn[mapped])
           afterInitial == IF sendNow
                           THEN sendInitialGameState(inbox, pid, participants, room,
                                                     connections, conn)
                           ELSE inbox
       IN  /\ inbox' = broadcastToAll(afterInitial,
                                      UserMessage("user_joined", LocalParticipant(k)),
                                      "nobody", connections, conn)
    /\ page' = updateRoom(participants, room)
    /\ calls' = [calls EXCEPT ![k].pc = "done", ![k].rank = Rank]
    /\ UNCHANGED <<gather, peer, monitor, codec, joinResult, participants, connections, room, conn, evictTimers, toHost,
                   guestRoom, downFor, fresh>>

\* The 90 polls have passed without the connection being established: the
\* connection is closed and the id is deleted from both maps.
PollTimeout(k) ==
    /\ calls[k].pc = "poll"
    /\ ~(isConnected(conn[k]) \/ relaxedConnected(conn[k]))
    /\ LET pid == calls[k].pid
       IN  /\ conn' = [conn EXCEPT ![k] = close(@)]
           /\ connections' = [connections EXCEPT ![pid] = 0]
           /\ participants' = MapDelete(participants, pid)
           /\ calls' = [Freeze(calls, participants, pid) EXCEPT ![k].pc = "timedout"]
           /\ fresh' = IF MapHas(participants, pid) THEN AllStale ELSE fresh
    /\ downFor' = AgeKept(conn')
    /\ UNCHANGED <<gather, peer, monitor, codec, joinResult, room, page, evictTimers, inbox, toHost, guestRoom>>

\* ------------------------------------------- connection state changes ---
\* PlanningPokerHost.handleConnectionStateChange(pid, state): the roster
\* entry's connected flag, the page update, and the removal timer.
handleConnectionStateChange(pid, state) ==
    /\ IF MapHas(participants, pid) /\ connections[pid] # 0
       THEN /\ participants' = MapSet(participants,
                   [MapGet(participants, pid) EXCEPT !.connected =
                       state = "connected" \/ relaxedConnected(conn'[connections[pid]])])
            /\ page' = updateRoom(participants', room)
            /\ fresh' = AllStale
       ELSE UNCHANGED <<participants, page, fresh>>
    /\ evictTimers' =
          IF state = "failed"
          THEN [evictTimers EXCEPT ![pid] = Append(@, GraceFailedMs)]
          ELSE IF state = "disconnected"
          THEN [evictTimers EXCEPT ![pid] = Append(@, GraceDisconnectedMs)]
          ELSE evictTimers

\* ConnectionMonitor.handleConnectionFailure of connection c: onFailure is
\* WebRTCConnection.handleConnectionFailure, which reports 'failed' to the
\* host's callback for the participant of c.
handleConnectionFailure(c) ==
    /\ Len(evictTimers[calls[c].pid]) < MaxTimers
    /\ handleConnectionStateChange(calls[c].pid, "failed")

NotReported == UNCHANGED <<participants, page, evictTimers, fresh>>

\* The guest has one peer connection: a host connection can reach it only
\* while no other connection of the same guest holds it.
Linked(c) == c.dc = "open" \/ c.ice = "connected"

NoOtherLink(c) ==
    \A d \in CallIds \ {c} : calls[d].pid = calls[c].pid => ~Linked(conn[d])

\* ICE reaches 'connected' while the peer connection is still 'connecting'.
IceConnected(c) ==
    /\ conn[c].cs = "connecting" /\ conn[c].ice = "checking"
    /\ NoOtherLink(c)
    /\ conn' = [conn EXCEPT ![c].ice = "connected"]
    /\ UNCHANGED <<gather, peer, monitor, codec, joinResult, participants, connections, room, page, calls, evictTimers,
                   inbox, toHost, guestRoom, downFor, fresh>>

\* connectionState 'connected': ConnectionMonitor resets its attempts and
\* clears the connect timeout.  The host's own callback is not called: the
\* monitor has replaced onconnectionstatechange.
PcConnected(c) ==
    /\ conn[c].cs = "connecting" /\ conn[c].ice = "connected"
    /\ conn' = [conn EXCEPT ![c].cs = "connected", ![c].reconnectAttempts = 0,
                            ![c].connectionTimeout = FALSE]
    /\ UNCHANGED <<gather, peer, monitor, codec, joinResult, participants, connections, room, page, calls, evictTimers,
                   inbox, toHost, guestRoom, downFor, fresh>>

\* The data channel opens.
DcOpen(c) ==
    /\ conn[c].cs = "connected" /\ conn[c].dc = "connecting"
    /\ conn' = [conn EXCEPT ![c].dc = "open"]
    /\ UNCHANGED <<gather, peer, monitor, codec, joinResult, participants, connections, room, page, calls, evictTimers,
                   inbox, toHost, guestRoom, downFor, fresh>>

\* connectionState 'disconnected': ConnectionMonitor.attemptReconnect counts
\* the attempt (its timer calls the empty handleReconnect) or, with the
\* attempts used up, reports the failure.
PcDisconnected(c) ==
    /\ \/ conn[c].cs = "connected"
       \/ conn[c].cs = "connecting" /\ conn[c].dc = "open"
    /\ downFor' = [downFor EXCEPT ![c] = 0]
    /\ IF conn[c].reconnectAttempts >= maxReconnectAttempts
       THEN /\ conn' = [conn EXCEPT ![c].cs = "disconnected", ![c].ice = "disconnected",
                                    ![c].connectionTimeout = FALSE]
            /\ handleConnectionFailure(c)
       ELSE /\ conn' = [conn EXCEPT ![c].cs = "disconnected", ![c].ice = "disconnected",
                                    ![c].reconnectAttempts = @ + 1]
            /\ NotReported
    /\ UNCHANGED <<gather, peer, monitor, codec, joinResult, connections, room, calls, inbox, toHost, guestRoom>>

\* A disconnected connection checks again ('connecting').
PcRechecking(c) ==
    /\ conn[c].cs = "disconnected"
    /\ conn' = [conn EXCEPT ![c].cs = "connecting", ![c].ice = "checking"]
    /\ downFor' = [downFor EXCEPT ![c] = 0]
    /\ UNCHANGED <<gather, peer, monitor, codec, joinResult, participants, connections, room, page, calls, evictTimers,
                   inbox, toHost, guestRoom, fresh>>

\* A disconnected connection recovers.
PcRecovered(c) ==
    /\ conn[c].cs = "disconnected"
    /\ conn' = [conn EXCEPT ![c].cs = "connected", ![c].ice = "connected",
                            ![c].reconnectAttempts = 0, ![c].connectionTimeout = FALSE]
    /\ downFor' = [downFor EXCEPT ![c] = 0]
    /\ UNCHANGED <<gather, peer, monitor, codec, joinResult, participants, connections, room, page, calls, evictTimers,
                   inbox, toHost, guestRoom, fresh>>

\* connectionState 'failed': the monitor clears its timeout and reports.
PcFailed(c) ==
    /\ conn[c].cs \in {"connecting", "disconnected"}
    /\ conn' = [conn EXCEPT ![c].cs = "failed", ![c].ice = "failed", ![c].dc = "closed",
                            ![c].connectionTimeout = FALSE]
    /\ downFor' = [downFor EXCEPT ![c] = 0]
    /\ handleConnectionFailure(c)
    /\ UNCHANGED <<gather, peer, monitor, codec, joinResult, connections, room, calls, inbox, toHost, guestRoom>>

\* The monitor's connect timeout (90 s) fires while the peer connection is
\* 'connecting': the failure is reported.  In any other state the callback
\* does nothing.  The admission call (at most 15 s of gathering and 45 s of
\* polling) has ended by then.
MonitorTimeout(c) ==
    /\ conn[c].connectionTimeout
    /\ conn[c].cs = "connecting"
    /\ calls[c].pc \notin {"offer", "poll"}
    /\ conn' = [conn EXCEPT ![c].connectionTimeout = FALSE]
    /\ handleConnectionFailure(c)
    /\ UNCHANGED <<gather, peer, monitor, codec, joinResult, connections, room, calls, inbox, toHost, guestRoom, downFor>>

\* ------------------------------------------------------------ eviction --
\* PlanningPokerHost.removeParticipant(pid), run by a removal timer.
removeParticipant(pid) ==
    IF MapHas(participants, pid)
    THEN /\ participants' = MapDelete(participants, pid)
         /\ conn' = [c \in CallIds |->
                       IF c = connections[pid] THEN close(conn[c]) ELSE conn[c]]
         /\ connections' = [connections EXCEPT ![pid] = 0]
         /\ calls' = Freeze(calls, participants, pid)
         /\ inbox' = broadcastGameState(
                         broadcastToAll(inbox,
                                        UserMessage("user_left", MapGet(participants, pid)),
                                        "nobody", connections', conn'),
                         participants', room, connections', conn')
         /\ page' = updateRoom(participants', room)
         /\ fresh' = AfterBroadcast(Recipients(connections', conn', "nobody"))
    ELSE UNCHANGED <<participants, conn, connections, calls, inbox, page, fresh>>

EvictTimerFires(g) ==
    /\ evictTimers[g] # <<>>
    /\ Head(evictTimers[g]) = 0
    /\ evictTimers' = [evictTimers EXCEPT ![g] = Tail(@)]
    /\ removeParticipant(g)
    /\ downFor' = AgeKept(conn')
    /\ UNCHANGED <<gather, peer, monitor, codec, joinResult, room, toHost, guestRoom>>

\* ---------------------------------------------------------------- time --
TimerDue == \E g \in Ids : \E i \in 1..Len(evictTimers[g]) : evictTimers[g][i] = 0

\* The remaining delays of all pending removal timers.
Pending == UNION {{evictTimers[g][i] : i \in 1..Len(evictTimers[g])} : g \in Ids}

\* Time runs to the next timer expiry, or by the shorter grace period when
\* no timer is pending.
TickMs ==
    IF Pending # {} THEN CHOOSE d \in Pending : \A e \in Pending : d <= e
    ELSE GraceDisconnectedMs

Aged(ms) == IF ms + TickMs > GraceFailedMs THEN GraceFailedMs ELSE ms + TickMs

\* TickMs pass: no removal timer is overdue, and every pending timer and
\* every disconnected connection ages.
Tick ==
    /\ ~TimerDue
    /\ \/ Pending # {}
       \/ \E c \in CallIds : conn[c].cs = "disconnected" /\ downFor[c] < GraceFailedMs
    /\ evictTimers' = [g \in Ids |->
                         [i \in 1..Len(evictTimers[g]) |-> evictTimers[g][i] - TickMs]]
    /\ downFor' = [c \in CallIds |->
                     IF conn[c].cs = "disconnected" THEN Aged(downFor[c]) ELSE downFor[c]]
    /\ UNCHANGED <<gather, peer, monitor, codec, joinResult, participants, connections, room, page, calls, conn, inbox, toHost, guestRoom, fresh>>

\* ------------------------------------------------------- host controls --
\* PlanningPokerHost.changeGameState(newState)
changeGameState(newState) ==
    /\ participants' = IF newState = "voting" THEN ClearSelections(participants)
                       ELSE participants
    /\ room' = [room EXCEPT !.gameState = newState,
                            !.results = IF newState = "revealed"
                                        THEN <<calculateResults(participants)>> ELSE @]
    /\ inbox' = broadcastGameState(inbox, participants', room', connections, conn)
    /\ page' = updateRoom(participants', room')
    /\ fresh' = AfterBroadcast(Recipients(connections, conn, "nobody"))
    /\ UNCHANGED <<gather, peer, monitor, codec, joinResult, connections, calls, conn, evictTimers, toHost, guestRoom,
                   downFor>>

\* A nextRound that leaves the results of the round in the room.
nextRoundKeepingResults(food) ==
    /\ participants' = ClearSelections(participants)
    /\ room' = [gameState |-> "waiting", cards |-> generateCardDeck(food),
                currentRound |-> room.currentRound + 1, results |-> room.results]
    /\ inbox' = broadcastGameState(inbox, participants', room', connections, conn)
    /\ page' = updateRoom(participants', room')
    /\ fresh' = AfterBroadcast(Recipients(connections, conn, "nobody"))
    /\ UNCHANGED <<gather, peer, monitor, codec, joinResult, connections, calls, conn,
                   evictTimers, toHost, guestRoom, downFor>>

\* PlanningPokerHost.nextRound(), the new deck ending in the food drawn.
nextRound(food) ==
    /\ participants' = ClearSelections(participants)
    /\ room' = [gameState |-> "waiting", cards |-> generateCardDeck(food),
                currentRound |-> room.currentRound + 1, results |-> NoResults]
    /\ inbox' = broadcastGameState(inbox, participants', room', connections, conn)
    /\ page' = updateRoom(participants', room')
    /\ fresh' = AfterBroadcast(Recipients(connections, conn, "nobody"))
    /\ UNCHANGED <<gather, peer, monitor, codec, joinResult, connections, calls, conn, evictTimers, toHost, guestRoom,
                   downFor>>

\* The page's buttons: a disabled button delivers no click.
StartVoting ==
    /\ page.canStartVoting
    /\ changeGameState("voting")

RevealCards ==
    /\ page.canRevealCards
    /\ changeGameState("revealed")

NextRound ==
    /\ page.canNextRound
    /\ room.currentRound < MaxRound
    /\ \E food \in FoodEmojis : nextRound(food)

\* ------------------------------------------------------- card selection -
\* A handleCardSelection without the phase test.
handleCardSelectionAnyPhase(participantId, card) ==
    IF MapHas(participants, participantId)
    THEN /\ participants' = MapSet(participants,
                [MapGet(participants, participantId) EXCEPT !.selectedCard = card])
         /\ inbox' = broadcastGameState(inbox, participants', room, connections, conn)
         /\ page' = updateRoom(participants', room)
         /\ fresh' = AfterBroadcast(Recipients(connections, conn, "nobody"))
    ELSE UNCHANGED <<participants, inbox, page, fresh>>

\* PlanningPokerHost.handleCardSelection(participantId, card)
handleCardSelection(participantId, card) ==
    IF MapHas(participants, participantId) /\ room.gameState = "voting"
    THEN /\ participants' = MapSet(participants,
                [MapGet(participants, participantId) EXCEPT !.selectedCard = card])
         /\ inbox' = broadcastGameState(inbox, participants', room, connections, conn)
         /\ page' = updateRoom(participants', room)
         /\ fresh' = AfterBroadcast(Recipients(connections, conn, "nobody"))
    ELSE UNCHANGED <<participants, inbox, page, fresh>>

\* The emoji_sent message sendEmoji builds, as it travels on a channel.
EmojiMessage(emoji, senderId) ==
    [type |-> "emoji_sent", emoji |-> emoji, senderId |-> senderId]

\* A host handleMessage that takes the participant from the message's
\* senderId.
handleMessageTrustingSender(senderId, message) ==
    CASE message.type = "card_selected" ->
            handleCardSelection(message.senderId, message.card)
      [] message.type = "emoji_sent" ->
            /\ inbox' = broadcastToAll(inbox, EmojiMessage(message.emoji, message.senderId),
                                       senderId, connections, conn)
            /\ UNCHANGED <<participants, page, fresh>>
      [] OTHER -> UNCHANGED <<participants, inbox, page, fresh>>

\* A host handleMessage that relays every kind other than card_selected.
handleMessageRelayingAll(senderId, message) ==
    IF message.type = "card_selected"
    THEN handleCardSelection(senderId, message.card)
    ELSE /\ inbox' = broadcastToAll(inbox, [type |-> message.type], senderId,
                                    connections, conn)
         /\ UNCHANGED <<participants, page, fresh>>

\* PlanningPokerHost.handleMessage(senderId, message): a switch over
\* message.type with the cases card_selected and emoji_sent and no default.
hostHandleMessage(senderId, message) ==
    CASE message.type = "card_selected" ->
            handleCardSelection(senderId, message.card)
      [] message.type = "emoji_sent" ->
            /\ inbox' = broadcastToAll(inbox, EmojiMessage(message.emoji, message.senderId),
                                       senderId, connections, conn)
            /\ UNCHANGED <<participants, page, fresh>>
      [] OTHER -> UNCHANGED <<participants, inbox, page, fresh>>

\* The host's onMessage callback of the connection the message came in on,
\* bound to that connection's participant id.
HostReceive ==
    /\ toHost # <<>>
    /\ hostHandleMessage(calls[Head(toHost).conn].pid, Head(toHost))
    /\ toHost' = Tail(toHost)
    /\ UNCHANGED <<gather, peer, monitor, codec, joinResult, connections, room, calls, conn, evictTimers, guestRoom,
                   downFor>>

\* ----------------------------------------------------------------- guest
\* The host connection that holds guest g's peer connection, 0 if none.
GuestLink(g) ==
    IF \E c \in CallIds : calls[c].pid = g /\ Linked(conn[c])
    THEN CHOOSE c \in CallIds : calls[c].pid = g /\ Linked(conn[c])
    ELSE 0

Range(s) == {s[i] : i \in 1..Len(s)}

\* A selectCard without the test of the replica's phase.
selectCardAnyPhase(g, card) ==
    LET c == GuestLink(g)
        sent == c # 0 /\ sendMessage(conn[c])
        message == [type |-> "card_selected", card |-> card, conn |-> c, senderId |-> g]
        mine == guestRoom[g].participants
    IN  /\ c # 0 /\ isConnected(conn[c])
        /\ toHost' = IF ~sent THEN toHost
                      ELSE IF Len(toHost) < MaxToHost THEN Append(toHost, message)
                      ELSE Append(Tail(toHost), message)
        /\ guestRoom' = IF sent /\ MapHas(mine, g)
                         THEN [guestRoom EXCEPT ![g].participants =
                                  MapSet(mine, [MapGet(mine, g) EXCEPT !.selectedCard = card])]
                         ELSE guestRoom

\* PlanningPokerGuest.selectCard(card)
selectCard(g, card) ==
    LET c == GuestLink(g)
        sent == c # 0 /\ sendMessage(conn[c])
        message == [type |-> "card_selected", card |-> card, conn |-> c, senderId |-> g]
        mine == guestRoom[g].participants
    IN  /\ c # 0 /\ isConnected(conn[c])
        /\ guestRoom[g].gameState = "voting"
        /\ toHost' = IF ~sent THEN toHost
                      ELSE IF Len(toHost) < MaxToHost THEN Append(toHost, message)
                      ELSE Append(Tail(toHost), message)
        /\ guestRoom' = IF sent /\ MapHas(mine, g)
                         THEN [guestRoom EXCEPT ![g].participants =
                                  MapSet(mine, [MapGet(mine, g) EXCEPT !.selectedCard = card])]
                         ELSE guestRoom

SelectCard(g, card) ==
    /\ guestRoom[g] # NoRoom
    /\ card \in Range(guestRoom[g].cards)
    /\ selectCard(g, card)
    /\ UNCHANGED <<gather, peer, monitor, codec, joinResult, participants, connections, room, page, calls, conn, evictTimers,
                   inbox, downFor, fresh>>

\* A handleGameStateChange that keeps the results it already holds.
handleGameStateChangeKeepingResults(rm, message) ==
    LET host == SelectSeq(message.participants, LAMBDA p : p.isHost)
    IN  [hostId |-> IF host # <<>> THEN host[1].id ELSE rm.hostId,
         participants |-> MapFromList(message.participants),
         gameState |-> message.gameState,
         cards |-> message.cards,
         currentRound |-> message.currentRound,
         results |-> rm.results]

\* A handleGameStateChange that merges: an entry the replica holds with a
\* selection is kept in place of the broadcast's.
handleGameStateChangeMerging(rm, message) ==
    LET host == SelectSeq(message.participants, LAMBDA p : p.isHost)
        Merged(p) == IF MapHas(rm.participants, p.id)
                        /\ MapGet(rm.participants, p.id).selectedCard # NoCard
                     THEN MapGet(rm.participants, p.id) ELSE p
    IN  [hostId |-> IF host # <<>> THEN host[1].id ELSE rm.hostId,
         participants |-> MapFromList([i \in 1..Len(message.participants) |->
                                          Merged(message.participants[i])]),
         gameState |-> message.gameState,
         cards |-> message.cards,
         currentRound |-> message.currentRound,
         results |-> message.results]

\* PlanningPokerGuest.handleGameStateChange(message)
handleGameStateChange(rm, message) ==
    LET host == SelectSeq(message.participants, LAMBDA p : p.isHost)
    IN  [hostId |-> IF host # <<>> THEN host[1].id ELSE rm.hostId,
         participants |-> MapFromList(message.participants),
         gameState |-> message.gameState,
         cards |-> message.cards,
         currentRound |-> message.currentRound,
         results |-> message.results]

\* PlanningPokerGuest.handleUserJoined / handleUserLeft
handleUserJoined(rm, message) ==
    [rm EXCEPT !.participants = MapSet(@, message.user)]

handleUserLeft(rm, message) ==
    [rm EXCEPT !.participants = MapDelete(@, message.user.id)]

\* PlanningPokerGuest.handleMessage
handleMessage(rm, message) ==
    CASE message.type = "game_state_changed" -> handleGameStateChange(rm, message)
      [] message.type = "user_joined" -> handleUserJoined(rm, message)
      [] message.type = "user_left" -> handleUserLeft(rm, message)
      [] message.type = "emoji_sent" -> rm
      [] OTHER -> rm

LaterState(q) == \E i \in 1..Len(q) : q[i].type = "game_state_changed"

\* The guest's onMessage callback takes the next message off its channel.
GuestReceive(g) ==
    /\ inbox[g] # <<>>
    /\ guestRoom[g] # NoRoom
    /\ inbox' = [inbox EXCEPT ![g] = Tail(@)]
    /\ guestRoom' = [guestRoom EXCEPT ![g] = handleMessage(@, Head(inbox[g]))]
    /\ fresh' = [fresh EXCEPT ![g] =
                   IF /\ Head(inbox[g]).type = "game_state_changed"
                      /\ @ = "inflight"
                      /\ ~LaterState(Tail(inbox[g]))
                   THEN "synced" ELSE @]
    /\ UNCHANGED <<gather, peer, monitor, codec, joinResult, participants, connections, room, page, calls, conn, evictTimers,
                   toHost, downFor>>

\* PlanningPokerGuest.sendEmoji(targetUserId, emoji)
SendEmoji(g, emoji) ==
    LET c == GuestLink(g)
        message == [type |-> "emoji_sent", emoji |-> emoji, senderId |-> g, conn |-> c]
    IN  /\ guestRoom[g] # NoRoom
        /\ c # 0 /\ isConnected(conn[c])
        /\ toHost' = IF ~sendMessage(conn[c]) THEN toHost
                      ELSE IF Len(toHost) < MaxToHost THEN Append(toHost, message)
                      ELSE Append(Tail(toHost), message)
        /\ UNCHANGED <<gather, peer, monitor, codec, joinResult, participants, connections, room, page, calls, conn,
                       evictTimers, inbox, guestRoom, downFor, fresh>>

\* The kinds of GameMessage, and those each side has a case for.
MessageKinds ==
    {"user_joined", "user_left", "card_selected", "game_state_changed",
     "host_changed", "emoji_sent"}

HostKinds == {"card_selected", "emoji_sent"}

GuestKinds == {"game_state_changed", "user_joined", "user_left", "emoji_sent"}

\* The remote end of an open channel sends a message of a kind the
\* receiving side has no case for; onmessage parses it and hands it to the
\* callback.
PeerSendsToHost(c, kind) ==
    /\ kind \in MessageKinds \ HostKinds
    /\ Linked(conn[c]) /\ sendMessage(conn[c])
    /\ toHost' = IF Len(toHost) < MaxToHost
                  THEN Append(toHost, [type |-> kind, conn |-> c])
                  ELSE Append(Tail(toHost), [type |-> kind, conn |-> c])
    /\ UNCHANGED <<gather, peer, monitor, codec, joinResult, participants, connections, room, page, calls, conn,
                   evictTimers, inbox, guestRoom, downFor, fresh>>

PeerSendsToGuest(g, kind) ==
    /\ kind \in MessageKinds \ GuestKinds
    /\ guestRoom[g] # NoRoom
    /\ GuestLink(g) # 0 /\ sendMessage(conn[GuestLink(g)])
    /\ inbox' = Deliver(inbox, g, [type |-> kind])
    /\ UNCHANGED <<gather, peer, monitor, codec, joinResult, participants, connections, room, page, calls, conn,
                   evictTimers, toHost, guestRoom, downFor, fresh>>

\* The remote end of an open channel sends a card_selected message that
\* carries another participant's id as its senderId.
PeerSendsCard(c, senderId, card) ==
    /\ senderId \in Ids \ {calls[c].pid}
    /\ Linked(conn[c]) /\ sendMessage(conn[c])
    /\ toHost' = IF Len(toHost) < MaxToHost
                  THEN Append(toHost, [type |-> "card_selected", card |-> card,
                                       conn |-> c, senderId |-> senderId])
                  ELSE Append(Tail(toHost), [type |-> "card_selected", card |-> card,
                                             conn |-> c, senderId |-> senderId])
    /\ UNCHANGED <<gather, peer, monitor, codec, joinResult, participants, connections, room,
                   page, calls, conn, evictTimers, inbox, guestRoom, downFor, fresh>>

\* PlanningPokerHost.cleanup(), called when the host page is destroyed:
\* every mapped connection is closed and the connection map is cleared.
Cleanup ==
    /\ \E id \in Ids : connections[id] # 0
    /\ conn' = [c \in CallIds |->
                  IF \E id \in Ids : connections[id] = c THEN close(conn[c]) ELSE conn[c]]
    /\ connections' = [id \in Ids |-> 0]
    /\ downFor' = AgeKept(conn')
    /\ UNCHANGED <<gather, peer, monitor, codec, joinResult, participants, room, page, calls,
                   evictTimers, inbox, toHost, guestRoom, fresh>>

\* ---------------------------------------------------------------- Next --
\* The operations, grouped; G is the set of guests that take part.
Joining(G) ==
    \E g \in G : JoinRoomFromLink(g) \/ HandleNewParticipant(g)

Negotiation ==
    \E k \in CallIds : NegotiationDone(k) \/ PollEstablished(k)

NegotiationFailure ==
    \E k \in CallIds : NegotiationThrows(k) \/ PollTimeout(k) \/ MonitorTimeout(k)

Transport ==
    \E c \in CallIds : IceConnected(c) \/ PcConnected(c) \/ DcOpen(c) \/ PcFailed(c)

Flapping ==
    \E c \in CallIds : PcDisconnected(c) \/ PcRechecking(c) \/ PcRecovered(c)

Timers ==
    Tick \/ \E g \in Ids : EvictTimerFires(g)

Controls ==
    StartVoting \/ RevealCards \/ NextRound

\* The cards a guest may pick: any, or one card each.
AnyCard == [g \in Guests |-> CardChoices]

Hand == [g \in Guests |-> IF g = "g1" THEN {"3"} ELSE {"?"}]

Messages(G, hands) ==
    \/ HostReceive
    \/ \E g \in G : \E card \in hands[g] : SelectCard(g, card)
    \/ \E g \in G : GuestReceive(g)

\* The whole system.
Next ==
    \/ Joining(Guests)
    \/ Negotiation
    \/ NegotiationFailure
    \/ Transport
    \/ Flapping
    \/ Timers
    \/ Controls
    \/ Messages(Guests, AnyCard)

Spec == Init /\ [][Next]_vars

\* One guest, every operation but the flapping of an established
\* connection.
Solo == {"g1"}

NextSolo ==
    \/ Joining(Solo)
    \/ Negotiation
    \/ NegotiationFailure
    \/ Transport
    \/ Timers
    \/ Controls
    \/ Messages(Solo, AnyCard)

SpecSolo == Init /\ [][NextSolo]_vars

\* Two guests, each submitting one answer code and voting one card, over a
\* network on which negotiation succeeds and connections get established
\* or fail.
FirstCode(g) == \A k \in CallIds : calls[k].pid # g

NextPair ==
    \/ \E g \in Guests : JoinRoomFromLink(g)
    \/ \E g \in Guests : FirstCode(g) /\ HandleNewParticipant(g)
    \/ Negotiation
    \/ Transport
    \/ Timers
    \/ Controls
    \/ Messages(Guests, Hand)

SpecPair == Init /\ [][NextPair]_vars

\* Admission of two guests with every way a negotiation and a connection
\* can go, and the host starting the vote.
NextAdmission ==
    \/ Joining(Guests)
    \/ Negotiation
    \/ NegotiationFailure
    \/ Transport
    \/ Timers
    \/ StartVoting

SpecAdmission == Init /\ [][NextAdmission]_vars

\* One guest admitted once, whose established connection flaps, and time.
NextGrace ==
    \/ JoinRoomFromLink("g1")
    \/ FirstCode("g1") /\ HandleNewParticipant("g1")
    \/ Negotiation
    \/ Transport
    \/ Flapping
    \/ Timers

SpecGrace == Init /\ [][NextGrace]_vars

\* The host's public methods called directly, without the page's buttons,
\* in a session with one guest.
GameStates == {"waiting", "voting", "revealed"}

ChangeGameState(newState) == changeGameState(newState)

NextRoundCall ==
    /\ room.currentRound < MaxRound
    /\ \E food \in FoodEmojis : nextRound(food)

NextApi ==
    \/ JoinRoomFromLink("g1")
    \/ FirstCode("g1") /\ HandleNewParticipant("g1")
    \/ Negotiation
    \/ Transport
    \/ Timers
    \/ \E newState \in GameStates : ChangeGameState(newState)
    \/ NextRoundCall
    \/ Messages(Solo, AnyCard)

SpecApi == Init /\ [][NextApi]_vars
\* ============================================================== claims ==
\* The host's entry as the guest g may hold it: the serialised entry, with
\* g's own selectedCard left open.
SameEntry(g, mine, theirs) ==
    \/ mine = ToWire(theirs)
    \/ /\ mine.id = g
       /\ [mine EXCEPT !.selectedCard = theirs.selectedCard] = ToWire(theirs)

SameAsHost(g) ==
    LET replica == guestRoom[g]
    IN  /\ replica.gameState = room.gameState
        /\ replica.currentRound = room.currentRound
        /\ replica.cards = room.cards
        /\ replica.results = room.results
        /\ replica.hostId = HostId
        /\ Len(replica.participants) = Len(participants)
        /\ \A i \in 1..Len(participants) :
               SameEntry(g, replica.participants[i], participants[i])

\* C1: a guest that has processed the host's latest broadcastGameState, with
\* no host mutation since, holds the host's gameState, currentRound, cards,
\* results, hostId and roster, but for its own provisional selectedCard.
C1_ReplicaConvergence ==
    \A g \in Guests : fresh[g] = "synced" => SameAsHost(g)

\* C1 witness: after two admissions, votes and the reveal, a guest has
\* processed the broadcast of the revealed state.
C1_Witness ==
    /\ room.gameState = "revealed"
    /\ room.results # NoResults
    /\ Len(participants) = 3
    /\ \E g \in Guests : fresh[g] = "synced" /\ guestRoom[g].results = room.results

\* The calls made for participant id g, and the roster entries it has.
CallsFor(g) == {k \in CallIds : calls[k].pid = g}

Entries(g) == Cardinality({i \in 1..Len(participants) : participants[i].id = g})

Finished(k) == calls[k].pc \in {"done", "returned", "thrown", "timedout"}

\* C2: when the calls for two different participant ids (each id submitted
\* once) have both seen their connection established, in either order, and
\* neither participant has been evicted since, the roster holds the host and
\* each of the two exactly once.
C2_AdmissionConcurrency ==
    \A j, k \in CallIds :
        (/\ calls[j].pc = "done" /\ calls[k].pc = "done"
         /\ calls[j].pid # calls[k].pid
         /\ CallsFor(calls[j].pid) = {j} /\ CallsFor(calls[k].pid) = {k}
         /\ conn[j].cs # "closed" /\ conn[k].cs # "closed")
        => /\ Entries(calls[j].pid) = 1
           /\ Entries(calls[k].pid) = 1
           /\ Entries(HostId) = 1
           /\ Len(participants) = 3

\* C2 witness: the second call saw its connection established first, the
\* first call second, and both participants are in the roster.
C2_Witness ==
    /\ calls[1].pc = "done" /\ calls[2].pc = "done"
    /\ calls[1].pid # calls[2].pid
    /\ calls[2].rank = 1 /\ calls[1].rank = 2
    /\ MapIds(participants) = {HostId} \cup Guests
    /\ Len(participants) = 3

\* C3 (as claimed): once every submission of a participant id has finished
\* and one of them has admitted the participant over a connection that is
\* still connected, the roster holds exactly one entry for the id and the
\* connection map exactly one live connection for it.
C3_AdmittedOnce ==
    \A g \in Guests :
        (/\ \A k \in CallsFor(g) : Finished(k)
         /\ \E k \in CallsFor(g) : calls[k].pc = "done" /\ isConnected(conn[k]))
        => /\ Entries(g) = 1
           /\ connections[g] # 0
           /\ isConnected(conn[connections[g]])
           /\ Cardinality({k \in CallsFor(g) : isConnected(conn[k])}) = 1

\* C7 (as claimed): the vote never starts with the host alone in the roster.
C7_NoVoteAlone ==
    [][(room.gameState = "waiting" /\ room.gameState' = "voting")
         => Len(participants) > 1]_vars

\* C4 (as claimed): a participant whose connection has stayed disconnected
\* for longer than the grace delay is no longer in the roster.
C4_EvictedAfterGrace ==
    \A c \in CallIds :
        (conn[c].cs = "disconnected" /\ downFor[c] > GraceDisconnectedMs)
        => ~MapHas(participants, calls[c].pid)

\* C5 (as claimed): a participant whose connection is connected again is
\* not evicted.
C5_RecoveredNotEvicted ==
    [][\A g \in Guests :
          (/\ MapHas(participants, g)
           /\ connections[g] # 0
           /\ conn[connections[g]].cs = "connected")
          => MapHas(participants', g)]_vars

\* C6 (as claimed): the phase moves only waiting -> voting -> revealed ->
\* waiting of the next round; any other request changes nothing.
C6_LegalTransitionsOnly ==
    [][\/ /\ room.gameState = "waiting" /\ room'.gameState = "voting"
          /\ room'.currentRound = room.currentRound
       \/ /\ room.gameState = "voting" /\ room'.gameState = "revealed"
          /\ room'.currentRound = room.currentRound
       \/ /\ room.gameState = "revealed" /\ room'.gameState = "waiting"
          /\ room'.currentRound = room.currentRound + 1
       \/ room' = room]_vars

\* The roster's non-host entries marked connected.
ConnectedFollowers(parts) ==
    {i \in 1..Len(parts) : ~parts[i].isHost /\ parts[i].connected}

\* C8: the cards are revealed only when every non-host roster entry marked
\* connected has a selectedCard.
C8_RevealGated ==
    [][(room.gameState # "revealed" /\ room'.gameState = "revealed")
         => \A i \in ConnectedFollowers(participants) :
                participants[i].selectedCard # NoCard]_vars

\* C8 witness: during the vote a follower marked connected has not
\* selected, and the page's reveal control is off.
C8_Witness ==
    /\ room.gameState = "voting"
    /\ \E i \in ConnectedFollowers(participants) : participants[i].selectedCard = NoCard
    /\ ~page.canRevealCards

\* C9: currentRound changes only by a step that adds exactly 1 to it, puts
\* the phase back to waiting, clears the results and leaves no roster entry
\* with a selectedCard.
C9_NewRound ==
    [][room'.currentRound # room.currentRound
         => /\ room'.currentRound = room.currentRound + 1
            /\ room'.gameState = "waiting"
            /\ room'.results = NoResults
            /\ \A i \in 1..Len(participants') : participants'[i].selectedCard = NoCard]_vars

\* C9 witness: the second round has begun after a reveal of both guests'
\* votes, and nobody holds a selection.
C9_Witness ==
    /\ room.currentRound = 2
    /\ room.gameState = "waiting"
    /\ room.results = NoResults
    /\ Len(participants) = 3
    /\ \A i \in 1..Len(participants) : participants[i].selectedCard = NoCard
    /\ \E g \in Guests : /\ guestRoom[g].results # NoResults
                           /\ Len(guestRoom[g].results[1].votes) = 2

\* C10: the host taking a card_selected message off a channel applies it
\* only in the voting phase for a sender in the roster, and otherwise
\* changes nothing and sends nothing; applied, the sender's entry holds the
\* card and every peer with an open connected channel is sent the new state.
C10_SelectionGuard ==
    [][(toHost # <<>> /\ toHost' = Tail(toHost) /\ Head(toHost).type = "card_selected")
         => LET sender == calls[Head(toHost).conn].pid
                card == Head(toHost).card
            IN  IF room.gameState = "voting" /\ MapHas(participants, sender)
                THEN /\ MapGet(participants', sender).selectedCard = card
                     /\ \A g \in Recipients(connections, conn, "nobody") :
                            /\ inbox'[g] # <<>>
                            /\ inbox'[g][Len(inbox'[g])] =
                                   GameStateMessage(participants', room')
                ELSE /\ participants' = participants
                     /\ room' = room
                     /\ inbox' = inbox]_vars

\* C10 witness: a selection has been applied during the vote and the other
\* guest has the resulting state in flight.
C10_Witness ==
    /\ room.gameState = "voting"
    /\ toHost = <<>>
    /\ MapHas(participants, "g1") /\ MapGet(participants, "g1").selectedCard # NoCard
    /\ inbox["g2"] # <<>>
    /\ inbox["g2"][Len(inbox["g2"])] = GameStateMessage(participants, room)
\* One guest whose established connection can drop and who can then be
\* admitted again under its id, with the vote, the reveal and the card
\* messages.
NextRejoin ==
    \/ Joining(Solo)
    \/ Negotiation
    \/ Transport
    \/ \E c \in CallIds : PcDisconnected(c)
    \/ StartVoting
    \/ RevealCards
    \/ Messages(Solo, Hand)

SpecRejoin == Init /\ [][NextRejoin]_vars

\* The selections of the non-host roster entries, in roster order.
Selections(parts) ==
    LET Voted(p) == ~p.isHost /\ p.selectedCard # NoCard
        voters == SelectSeq(parts, Voted)
    IN  [i \in 1..Len(voters) |-> voters[i].selectedCard]

\* C11 (as claimed): the results stored on entering revealed list exactly
\* the non-host selections of that moment, and while the room stays
\* revealed no step changes the results or the selectedCard of a
\* participant that stays in the roster.
C11_ResultsFixedAtReveal ==
    [][/\ (room.gameState # "revealed" /\ room'.gameState = "revealed")
            => /\ room'.results # NoResults
               /\ room'.results[1].votes = Selections(participants)
       /\ (room.gameState = "revealed" /\ room'.gameState = "revealed")
            => /\ room'.results = room.results
               /\ \A i \in 1..Len(participants) : \A j \in 1..Len(participants') :
                      participants[i].id = participants'[j].id
                      => participants'[j].selectedCard = participants[i].selectedCard]_vars
\* ------------------------------------------------------------ results --
\* calculateResults as a function of the roster: the host with three
\* participants in a vote, each with no selection or any card of the deck
\* or any food emoji, and the reveal.
StatVoters == <<"A", "B", "C">>

StatCards(food) == {NoCard} \cup Range(generateCardDeck(food)) \cup FoodEmojis

StatRoster(sel) ==
    <<HostUser>> \o [i \in 1..Len(StatVoters) |->
                        [id |-> StatVoters[i], isHost |-> FALSE, connected |-> TRUE,
                         selectedCard |-> sel[i], obj |-> 0]]

InitStats ==
    /\ \E food \in FoodEmojis :
          /\ room = [gameState |-> "voting", cards |-> generateCardDeck(food),
                     currentRound |-> 1, results |-> NoResults]
          /\ \E sel \in [1..Len(StatVoters) -> StatCards(food)] :
                participants = StatRoster(sel)
    /\ connections = [g \in Ids |-> 0]
    /\ page = updateRoom(participants, room)
    /\ calls = [k \in CallIds |-> UnusedCall]
    /\ conn = [k \in CallIds |-> NoConnection]
    /\ evictTimers = [g \in Ids |-> <<>>]
    /\ inbox = [g \in Ids |-> <<>>]
    /\ toHost = <<>>
    /\ guestRoom = [g \in Guests |-> NoRoom]
    /\ downFor = [k \in CallIds |-> 0]
    /\ fresh = AllStale
    /\ joinResult = [g \in Guests |-> NotJoined]
    /\ monitor = NewMonitor
    /\ gather = NewICEManager
    /\ peer = NewPeer
    /\ codec = NoCodec

NextStats == room.gameState = "voting" /\ ChangeGameState("revealed")

SpecStats == InitStats /\ [][NextStats]_vars

\* C12 (as claimed): with the selections '3', '1/2' and '?' the results
\* hold the three votes, total 3.5 and average 1.75 (results are kept in
\* tenths: 35 and 17.5).
C12_ResultsExample ==
    (/\ room.gameState = "revealed"
     /\ Selections(participants) = <<"3", "1/2", "?">>)
    => /\ room.results # NoResults
       /\ room.results[1].votes = <<"3", "1/2", "?">>
       /\ room.results[1].total = 35
       /\ 10 * room.results[1].average = 175
\* The selections that count as numeric votes.
NumericSelections(parts) ==
    SelectSeq(Selections(parts), LAMBDA v : v # "?" /\ ~isFoodEmoji(v))

\* C13: a reveal with no numeric selection (no selections at all, or only
\* '?' and food emojis) stores results with average 0 and total 0.
C13_ZeroNumericVotes ==
    (room.gameState = "revealed" /\ NumericSelections(participants) = <<>>)
    => /\ room.results # NoResults
       /\ room.results[1].average = 0
       /\ room.results[1].total = 0
       /\ room.results[1].votes = Selections(participants)

\* C13 witness: the cards are revealed with a '?' and a food emoji as the
\* only selections, and the average and total are 0.
C13_Witness ==
    /\ room.gameState = "revealed"
    /\ \E food \in FoodEmojis : Selections(participants) = <<"?", food>>
    /\ room.results # NoResults
    /\ room.results[1].average = 0
    /\ room.results[1].total = 0
\* ------------------------------------------------------- join codes ----
\* The ages of the join codes the guests try, around the expiry.
LinkAges ==
    {0, 1000, 299000, LinkExpiryMs - 1, LinkExpiryMs, LinkExpiryMs + 1, 301000, 600000}

\* The guests calling joinRoomFromLink with codes of these ages, again
\* after a rejection.
NextJoin == \E g \in Guests : \E linkAge \in LinkAges : JoinRoomFromLinkAged(g, linkAge)

SpecJoin == Init /\ [][NextJoin]_vars

\* C14: a joinRoomFromLink with a code more than 300000 ms old has ended in
\* an error with no answer code and no replica room; with a code at most
\* 300000 ms old it has returned an answer code and set the replica.
C14_ExpiryBoundary ==
    \A g \in Guests :
        joinResult[g].outcome # "none"
        => IF joinResult[g].linkAge > 300000
           THEN joinResult[g].outcome = "error" /\ guestRoom[g] = NoRoom
           ELSE joinResult[g].outcome = "answerCode" /\ guestRoom[g] # NoRoom

\* C14 witness: one guest was rejected with a code 301000 ms old, the other
\* accepted with a code 299000 ms old.
C14_Witness ==
    /\ joinResult["g1"] = [linkAge |-> 301000, outcome |-> "error"]
    /\ guestRoom["g1"] = NoRoom
    /\ joinResult["g2"] = [linkAge |-> 299000, outcome |-> "answerCode"]
    /\ guestRoom["g2"].gameState = "waiting"
\* ------------------------------------------------- SignalingManager ----
\* Text is a sequence of UTF-16 code units.  A base64 character is its
\* index in the alphabet (62 is '+', 63 is '/'), 64 for '=', 65 for '-'
\* and 66 for '_'.
\* The display names tried: of 'A', 'û', 'ÿ' (Latin-1) and '김'.
NameChars == {65, 251, 255, 44608}

Names == UNION {[1..n -> NameChars] : n \in 0..MaxName}

\* JSON.stringify of a descriptor whose display name is `name`: the name's
\* characters are written as they are (none of them is escaped); the other
\* fields are ASCII and stand as the framing '{' ... '}'.
stringify(name) == <<123>> \o name \o <<125>>

\* JSON.parse of such a text: the display name read back.
parse(text) == SubSeq(text, 2, Len(text) - 1)

\* btoa throws InvalidCharacterError on a code unit above 0xFF.
btoaThrows(text) == \E i \in 1..Len(text) : text[i] > 255

RECURSIVE btoa(_)
btoa(b) ==
    IF Len(b) = 0 THEN <<>>
    ELSE IF Len(b) = 1
    THEN <<b[1] \div 4, (b[1] % 4) * 16, 64, 64>>
    ELSE IF Len(b) = 2
    THEN <<b[1] \div 4, (b[1] % 4) * 16 + b[2] \div 16, (b[2] % 16) * 4, 64>>
    ELSE <<b[1] \div 4, (b[1] % 4) * 16 + b[2] \div 16,
           (b[2] % 16) * 4 + b[3] \div 64, b[3] % 64>> \o btoa(SubSeq(b, 4, Len(b)))

RECURSIVE atob(_)
atob(c) ==
    IF Len(c) < 4 THEN <<>>
    ELSE IF c[3] = 64 THEN <<c[1] * 4 + c[2] \div 16>>
    ELSE IF c[4] = 64
    THEN <<c[1] * 4 + c[2] \div 16, (c[2] % 16) * 16 + c[3] \div 4>>
    ELSE <<c[1] * 4 + c[2] \div 16, (c[2] % 16) * 16 + c[3] \div 4,
           (c[3] % 4) * 64 + c[4]>> \o atob(SubSeq(c, 5, Len(c)))

\* SignalingManager.encodeOffer: btoa, '+' to '-', '/' to '_', '=' removed.
encodeOffer(name) ==
    LET encoded == btoa(stringify(name))
        replaced == [i \in 1..Len(encoded) |->
                        IF encoded[i] = 62 THEN 65
                        ELSE IF encoded[i] = 63 THEN 66 ELSE encoded[i]]
    IN  SelectSeq(replaced, LAMBDA ch : ch # 64)

\* SignalingManager.decodeOffer
decodeOffer(encodedOffer) ==
    LET padded == [i \in 1..Len(encodedOffer) |->
                      IF encodedOffer[i] = 65 THEN 62
                      ELSE IF encodedOffer[i] = 66 THEN 63 ELSE encodedOffer[i]]
        padding == [i \in 1..((4 - (Len(padded) % 4)) % 4) |-> 64]
    IN  parse(atob(padded \o padding))

\* SignalingManager.encodeAnswer / decodeAnswer
encodeAnswer(name) == btoa(stringify(name))

decodeAnswer(encodedAnswer) == parse(atob(encodedAnswer))

\* An offer or answer descriptor is handed to its encoder, which throws
\* when btoa does.
EncodeDescriptor ==
    /\ codec.stage = "made"
    /\ codec' = IF btoaThrows(stringify(codec.name))
                THEN [codec EXCEPT !.stage = "encodeFailed"]
                ELSE [codec EXCEPT !.stage = "encoded",
                                   !.code = IF codec.kind = "offer"
                                            THEN encodeOffer(codec.name)
                                            ELSE encodeAnswer(codec.name)]
    /\ UNCHANGED <<participants, connections, room, page, calls, conn, evictTimers,
                   inbox, toHost, guestRoom, downFor, fresh, joinResult, monitor,
                   gather, peer>>

\* The code is handed to the matching decoder.
DecodeCode ==
    /\ codec.stage = "encoded"
    /\ codec' = [codec EXCEPT !.stage = "decoded",
                              !.decoded = IF codec.kind = "offer"
                                          THEN decodeOffer(codec.code)
                                          ELSE decodeAnswer(codec.code)]
    /\ UNCHANGED <<participants, connections, room, page, calls, conn, evictTimers,
                   inbox, toHost, guestRoom, downFor, fresh, joinResult, monitor,
                   gather, peer>>

\* The codec as a function of the descriptor: every name of up to MaxName
\* characters, in an offer and in an answer descriptor.
InitCodec ==
    /\ participants = <<HostUser>>
    /\ connections = [g \in Ids |-> 0]
    /\ \E food \in FoodEmojis :
          room = [gameState |-> "waiting", cards |-> generateCardDeck(food),
                  currentRound |-> 1, results |-> NoResults]
    /\ page = updateRoom(participants, room)
    /\ calls = [k \in CallIds |-> UnusedCall]
    /\ conn = [k \in CallIds |-> NoConnection]
    /\ evictTimers = [g \in Ids |-> <<>>]
    /\ inbox = [g \in Ids |-> <<>>]
    /\ toHost = <<>>
    /\ guestRoom = [g \in Guests |-> NoRoom]
    /\ downFor = [k \in CallIds |-> 0]
    /\ fresh = AllStale
    /\ joinResult = [g \in Guests |-> NotJoined]
    /\ monitor = NewMonitor
    /\ gather = NewICEManager
    /\ peer = NewPeer
    /\ \E kind \in {"offer", "answer"} : \E name \in Names :
          codec = [kind |-> kind, name |-> name, stage |-> "made",
                   code |-> <<>>, decoded |-> <<>>]

NextCodec == EncodeDescriptor \/ DecodeCode

SpecCodec == InitCodec /\ [][NextCodec]_vars

\* C15 (as claimed): every descriptor is encoded, and its code decodes to
\* the descriptor's own fields.
C15_CodecRoundTrip ==
    /\ codec.stage # "encodeFailed"
    /\ codec.stage = "decoded" => codec.decoded = codec.name
\* ---------------------------------------------------- answer codes -----
\* One guest whose answer codes reach the host with any of the four fields
\* missing, and what becomes of the calls.
NextCodes ==
    \/ JoinRoomFromLink("g1")
    \/ \E fields \in SUBSET AnswerFields : handleNewParticipant("g1", fields)
    \/ Negotiation
    \/ \E k \in CallIds : CandidatesMissing(k)
    \/ Transport

SpecCodes == Init /\ [][NextCodes]_vars

\* C16 (as claimed): a handleNewParticipant call whose code lacks one of
\* answer, iceCandidates, participantName and participantId ends as an
\* invalid code and leaves the roster and the connection map as they were.
C16_FourFieldsRequired ==
    [][\A k \in CallIds :
          (/\ calls[k].pc = "unused" /\ calls'[k].pc # "unused"
           /\ calls'[k].code # AnswerFields)
          => /\ calls'[k].pc = "invalid"
             /\ participants' = participants
             /\ connections' = connections]_vars
\* C17: a call whose wait loop ends without the connection established
\* closes its connection, leaves the participant id in neither the roster
\* nor the connection map, and ends in failure; a call ends in success only
\* with its connection established.
C17_ConnectTimeout ==
    [][\A k \in CallIds :
          /\ (calls[k].pc = "poll" /\ calls'[k].pc # "poll"
              /\ ~(isConnected(conn[k]) \/ relaxedConnected(conn[k])))
                => /\ calls'[k].pc = "timedout"
                   /\ conn'[k].cs = "closed" /\ conn'[k].dc = "closed"
                   /\ ~MapHas(participants', calls[k].pid)
                   /\ connections'[calls[k].pid] = 0
          /\ (calls[k].pc = "poll" /\ calls'[k].pc = "done")
                => isConnected(conn[k]) \/ relaxedConnected(conn[k])]_vars

\* C17 witness: the first call was abandoned after its connection failed,
\* with its participant gone from the roster and the connection map, while
\* the second call admitted the other guest.
C17_Witness ==
    /\ calls[1].pc = "timedout" /\ calls[1].pid = "g1"
    /\ conn[1].cs = "closed"
    /\ ~MapHas(participants, "g1") /\ connections["g1"] = 0
    /\ calls[2].pc = "done" /\ calls[2].pid = "g2"
    /\ MapHas(participants, "g2") /\ connections["g2"] = 2
\* C18 (as claimed): the step in which an admission succeeds puts the
\* snapshot of the host's state on the admitted participant's channel (no
\* later step sends it: the retry of scheduleInitialGameState is armed only
\* when the connection does not pass isConnected).
C18_InitialSnapshot ==
    [][\A k \in CallIds :
          (calls[k].pc = "poll" /\ calls'[k].pc = "done")
          => \E i \in 1..Len(inbox'[calls[k].pid]) :
                inbox'[calls[k].pid][i] = GameStateMessage(participants, room)]_vars

\* C19 (as claimed): the step in which an admission succeeds sends no
\* user_joined about the admitted participant to that participant.
C19_JoinAnnouncedToOthers ==
    [][\A k \in CallIds :
          (calls[k].pc = "poll" /\ calls'[k].pc = "done")
          => ~\E i \in 1..Len(inbox'[calls[k].pid]) :
                 /\ inbox'[calls[k].pid][i].type = "user_joined"
                 /\ inbox'[calls[k].pid][i].user.id = calls[k].pid]_vars
\* C20: a removal timer firing for a participant in the roster takes it
\* out of the roster and the connection map, closes its connection, and
\* leaves on the channel of every remaining connected peer, as the last
\* message, the state with the roster that no longer holds it.
C20_EvictionEffect ==
    [][\A g \in Guests :
          (Len(evictTimers'[g]) < Len(evictTimers[g]) /\ MapHas(participants, g))
          => /\ ~MapHas(participants', g)
             /\ connections'[g] = 0
             /\ connections[g] # 0 => /\ conn'[connections[g]].cs = "closed"
                                      /\ conn'[connections[g]].dc = "closed"
             /\ \A h \in Recipients(connections', conn', "nobody") :
                    /\ inbox'[h] # <<>>
                    /\ LET last == inbox'[h][Len(inbox'[h])]
                       IN  /\ last = GameStateMessage(participants', room)
                           /\ ~MapHas(last.participants, g)]_vars

\* C20 witness: g1 was admitted and evicted; g2 remains connected with an
\* open channel and has the state without g1 in flight.
C20_Witness ==
    /\ calls[1].pid = "g1" /\ calls[1].pc = "done"
    /\ ~MapHas(participants, "g1") /\ connections["g1"] = 0
    /\ conn[1].cs = "closed"
    /\ "g2" \in Recipients(connections, conn, "nobody")
    /\ inbox["g2"] # <<>>
    /\ inbox["g2"][Len(inbox["g2"])] = GameStateMessage(participants, room)
    /\ MapIds(participants) = {HostId, "g2"}
\* A step in which participant P's admission fails, its connection drops
\* or fails, a failure of it is reported, or it is evicted.
FailureStepOf(P) ==
    \/ \E k \in CallIds : /\ calls[k].pid = P
                          /\ calls[k].pc \in {"offer", "poll"}
                          /\ calls'[k].pc \in {"thrown", "timedout"}
    \/ \E c \in CallIds : /\ calls[c].pid = P
                          /\ conn[c].cs \in {"connecting", "connected"}
                          /\ conn'[c].cs \in {"disconnected", "failed"}
    \/ Len(evictTimers'[P]) # Len(evictTimers[P])

\* Nothing of the participants other than P, and nothing of the session,
\* changes in the step.
OthersUntouched(P) ==
    /\ \A id \in (Guests \cup {HostId}) \ {P} :
          /\ MapHas(participants', id) <=> MapHas(participants, id)
          /\ MapHas(participants, id) => MapGet(participants', id) = MapGet(participants, id)
    /\ \A g \in Guests \ {P} :
          /\ connections'[g] = connections[g]
          /\ connections[g] # 0 => conn'[connections[g]] = conn[connections[g]]
    /\ room' = room

NextForged ==
    \/ JoinRoomFromLink("g1")
    \/ \E pid \in {"g1", HostId} : handleNewParticipant(pid, AnswerFields)
    \/ Negotiation
    \/ NegotiationFailure
    \/ Transport
    \/ Timers

SpecForged == Init /\ [][NextForged]_vars

\* C22 (as claimed): the roster holds exactly one entry with isHost, and
\* its id is the room's hostId.
C22_ExactlyOneHost ==
    /\ Cardinality({i \in 1..Len(participants) : participants[i].isHost}) = 1
    /\ \A i \in 1..Len(participants) : participants[i].isHost => participants[i].id = HostId
\* C23 (as claimed): a state message sent to a peer during the vote does
\* not depend on the card value another participant selected: no voting
\* message in flight to a peer carries another participant's card.
C23_PresenceOnly ==
    \A h \in Guests : \A i \in 1..Len(inbox[h]) :
        (inbox[h][i].type = "game_state_changed" /\ inbox[h][i].gameState = "voting")
        => \A j \in 1..Len(inbox[h][i].participants) :
               inbox[h][i].participants[j].id # h
               => inbox[h][i].participants[j].selectedCard = NoCard
\* ------------------------------------------------- late admission ------
\* Two guests, each submitting one answer code at any time, connections
\* that get established or stay in 'connecting' until the monitor's connect
\* timeout, the vote and the reveal.
NextLate ==
    \/ \E g \in Guests : JoinRoomFromLink(g)
    \/ \E g \in Guests : FirstCode(g) /\ HandleNewParticipant(g)
    \/ Negotiation
    \/ Transport
    \/ \E c \in CallIds : MonitorTimeout(c)
    \/ StartVoting
    \/ RevealCards
    \/ Messages(Guests, Hand)

SpecLate == Init /\ [][NextLate]_vars

\* C24 (as claimed): while the cards are revealed, every non-host roster
\* entry with connected = true has a selectedCard.
C24_RevealInvariant ==
    room.gameState = "revealed"
    => \A i \in ConnectedFollowers(participants) : participants[i].selectedCard # NoCard
\* The step puts a message from guest g's connection on the way to the
\* host.
SentBy(g) ==
    /\ toHost' # <<>>
    /\ toHost' # toHost
    /\ toHost = <<>> \/ toHost' # Tail(toHost)
    /\ calls[toHost'[Len(toHost')].conn].pid = g

\* C25: while a guest's replica is not in the voting phase, no step sends
\* a card_selected message from that guest, and its replica changes only
\* by taking a message from the host off its channel.
C25_ReplicaSelectionGuard ==
    [][\A g \in Guests :
          (guestRoom[g] # NoRoom /\ guestRoom[g].gameState # "voting")
          => /\ ~SentBy(g)
             /\ guestRoom'[g] # guestRoom[g]
                    => inbox[g] # <<>> /\ inbox'[g] = Tail(inbox[g])]_vars

\* C25 witness: the guest's replica shows the revealed round with its own
\* card, its channel to the host is open and its deck is on the page, and
\* nothing is on the way to the host.
C25_Witness ==
    /\ guestRoom["g1"].gameState = "revealed"
    /\ guestRoom["g1"].cards # <<>>
    /\ MapHas(guestRoom["g1"].participants, "g1")
    /\ MapGet(guestRoom["g1"].participants, "g1").selectedCard # NoCard
    /\ GuestLink("g1") # 0
    /\ isConnected(conn[GuestLink("g1")]) /\ sendMessage(conn[GuestLink("g1")])
    /\ toHost = <<>>
\* Two guests admitted over a working network while the room waits, and
\* messages of every kind arriving on the channels in both directions.
NextKinds ==
    \/ \E g \in Guests : JoinRoomFromLink(g)
    \/ \E g \in Guests : FirstCode(g) /\ HandleNewParticipant(g)
    \/ Negotiation
    \/ Transport
    \/ HostReceive
    \/ \E g \in Guests : GuestReceive(g)
    \/ \E g \in Guests : SendEmoji(g, "thumb")
    \/ \E c \in CallIds : \E kind \in {"host_changed", "game_state_changed"} :
          PeerSendsToHost(c, kind)
    \/ \E g \in Guests : \E kind \in MessageKinds : PeerSendsToGuest(g, kind)

SpecKinds == Init /\ [][NextKinds]_vars

\* The step is the host taking a message of a kind it has no case for.
HostDropsUnknown ==
    /\ toHost # <<>>
    /\ Head(toHost).type \notin HostKinds
    /\ toHost' = Tail(toHost)

\* The step is guest g taking a message of a kind it has no case for.
GuestDropsUnknown(g) ==
    /\ guestRoom[g] # NoRoom
    /\ inbox[g] # <<>>
    /\ Head(inbox[g]).type \notin GuestKinds
    /\ inbox'[g] = Tail(inbox[g])

\* C26: the host taking a message that is neither card_selected nor
\* emoji_sent, and a guest taking a message that is none of
\* game_state_changed, user_joined, user_left and emoji_sent, change
\* nothing but the channel the message is taken from: no roster, room,
\* page or replica changes and nothing is sent.
C26_UnknownKindsDropped ==
    [][/\ HostDropsUnknown
          => UNCHANGED <<participants, connections, room, page, calls, conn,
                         evictTimers, inbox, guestRoom, downFor, joinResult>>
       /\ \A g \in Guests :
             GuestDropsUnknown(g)
             => /\ UNCHANGED <<participants, connections, room, page, calls, conn,
                               evictTimers, toHost, guestRoom, downFor, joinResult>>
                /\ \A o \in Ids \ {g} : inbox'[o] = inbox[o]]_vars

\* C26 witness: with both guests on open channels, the host has taken every
\* message sent to it, a host_changed message is the next one guest g1
\* takes, and guest g2 has taken all of its messages.
C26_Witness ==
    /\ \A g \in Guests : GuestLink(g) # 0 /\ sendMessage(conn[GuestLink(g)])
    /\ toHost = <<>>
    /\ inbox["g1"] # <<>> /\ Head(inbox["g1"]).type = "host_changed"
    /\ inbox["g2"] = <<>>
    /\ Len(guestRoom["g1"].participants) = 3
\* ---------------------------------------------------- ConnectionMonitor --
\* ConnectionMonitor.clearConnectionTimeout()
clearConnectionTimeout(m) == [m EXCEPT !.connectionTimeout = FALSE]

\* ConnectionMonitor.handleConnectionFailure(): the connect timeout is
\* cleared and onFailure called.
monitorFailure(m) == clearConnectionTimeout(m)

\* The callback of startConnectionTimeout(): the timer is spent, and the
\* failure is reported only with the peer connection in 'connecting'.
connectionTimeoutFires(m) ==
    IF m.cs = "connecting"
    THEN [monitorFailure(m) EXCEPT !.timeoutReports = @ + 1]
    ELSE [m EXCEPT !.connectionTimeout = FALSE]

\* ConnectionMonitor.attemptReconnect(): with the attempts used up the
\* failure callback is called and nothing is scheduled; otherwise the
\* attempt is counted and a timer of reconnectDelay * reconnectAttempts ms
\* is set, which will call onReconnect.
attemptReconnect(m) ==
    IF m.reconnectAttempts >= maxReconnectAttempts
    THEN [monitorFailure(m) EXCEPT !.exhausted = TRUE]
    ELSE [m EXCEPT !.reconnectAttempts = @ + 1,
                   !.timers = Append(@, reconnectDelay * (m.reconnectAttempts + 1))]

\* A handleConnectionStateChange that leaves the connect timeout pending
\* when the connection reports 'connected'.
monitorStateChangeKeepingTimer(m) ==
    CASE m.cs = "connected" -> [m EXCEPT !.reconnectAttempts = 0, !.exhausted = FALSE]
      [] m.cs = "disconnected" -> attemptReconnect(m)
      [] m.cs = "failed" -> monitorFailure(clearConnectionTimeout(m))
      [] m.cs = "closed" -> clearConnectionTimeout(m)
      [] OTHER -> m

\* ConnectionMonitor.handleConnectionStateChange(), the switch over the
\* peer connection's state.
monitorStateChange(m) ==
    CASE m.cs = "connected" ->
            clearConnectionTimeout([m EXCEPT !.reconnectAttempts = 0, !.exhausted = FALSE])
      [] m.cs = "disconnected" -> attemptReconnect(m)
      [] m.cs = "failed" -> monitorFailure(clearConnectionTimeout(m))
      [] m.cs = "closed" -> clearConnectionTimeout(m)
      [] OTHER -> m

\* The states a peer connection can go to from each state.
NextStates(cs) ==
    CASE cs = "new" -> {"connecting", "closed"}
      [] cs = "connecting" -> {"connected", "disconnected", "failed", "closed"}
      [] cs = "connected" -> {"disconnected", "failed", "closed"}
      [] cs = "disconnected" -> {"connecting", "connected", "failed", "closed"}
      [] cs = "failed" -> {"connecting", "closed"}
      [] OTHER -> {}

\* onconnectionstatechange: the peer connection has entered state.
ConnectionStateChange(state) ==
    /\ state \in NextStates(monitor.cs)
    /\ Len(monitor.timers) < MaxReconnectTimers
    /\ monitor' = monitorStateChange([monitor EXCEPT !.cs = state])
    /\ UNCHANGED <<gather, peer, codec, joinResult, participants, connections, room, page,
                   calls, conn, evictTimers, inbox, toHost, guestRoom, downFor, fresh>>

\* A reconnect timer is due: onReconnect, WebRTCConnection.handleReconnect,
\* is called; it does nothing and does not throw.
ReconnectTimerFires ==
    /\ monitor.timers # <<>>
    /\ \E i \in 1..Len(monitor.timers) :
          /\ monitor.timers[i] = 0
          /\ \A j \in 1..(i - 1) : monitor.timers[j] # 0
          /\ monitor' = [monitor EXCEPT !.timers =
                            SubSeq(@, 1, i - 1) \o SubSeq(@, i + 1, Len(@))]
    /\ UNCHANGED <<gather, peer, codec, joinResult, participants, connections, room, page,
                   calls, conn, evictTimers, inbox, toHost, guestRoom, downFor, fresh>>

\* The connect timeout is due.
ConnectionTimeoutFires ==
    /\ monitor.connectionTimeout
    /\ monitor' = connectionTimeoutFires(monitor)
    /\ UNCHANGED <<gather, peer, codec, joinResult, participants, connections, room, page,
                   calls, conn, evictTimers, inbox, toHost, guestRoom, downFor, fresh>>

\* reconnectDelay ms pass with no reconnect timer overdue.
MonitorTick ==
    /\ monitor.timers # <<>>
    /\ \A i \in 1..Len(monitor.timers) : monitor.timers[i] > 0
    /\ monitor' = [monitor EXCEPT !.timers =
                      [i \in 1..Len(@) |-> @[i] - reconnectDelay]]
    /\ UNCHANGED <<gather, peer, codec, joinResult, participants, connections, room, page,
                   calls, conn, evictTimers, inbox, toHost, guestRoom, downFor, fresh>>

\* ConnectionMonitor.manualReconnect()
ManualReconnect ==
    /\ Len(monitor.timers) < MaxReconnectTimers
    /\ monitor' = attemptReconnect([monitor EXCEPT !.reconnectAttempts = 0,
                                                   !.exhausted = FALSE])
    /\ UNCHANGED <<gather, peer, codec, joinResult, participants, connections, room, page,
                   calls, conn, evictTimers, inbox, toHost, guestRoom, downFor, fresh>>

\* One monitor, its connection changing state in every order, and time.
NextMonitor ==
    \/ \E state \in {"connecting", "connected", "disconnected", "failed", "closed"} :
          ConnectionStateChange(state)
    \/ ReconnectTimerFires
    \/ ConnectionTimeoutFires
    \/ MonitorTick
    \/ ManualReconnect

SpecMonitor == Init /\ [][NextMonitor]_vars

\* The step is a 'disconnected' report.
DisconnectedReport == monitor.cs # "disconnected" /\ monitor'.cs = "disconnected"

\* The step is an onReconnect call.
OnReconnectCall == Len(monitor'.timers) < Len(monitor.timers)

\* The counted attempts never exceed three; a 'disconnected' report that
\* finds fewer than three counted schedules the next attempt after
\* reconnectDelay times its number, and one that finds three schedules
\* nothing and calls the failure callback.
AttemptsBounded ==
    [][/\ monitor.reconnectAttempts <= maxReconnectAttempts
       /\ DisconnectedReport /\ monitor.reconnectAttempts < maxReconnectAttempts
          => /\ monitor'.reconnectAttempts = monitor.reconnectAttempts + 1
             /\ monitor'.timers =
                   Append(monitor.timers, monitor'.reconnectAttempts * 1000)
       /\ DisconnectedReport /\ monitor.reconnectAttempts >= maxReconnectAttempts
          => /\ monitor'.exhausted
             /\ monitor'.timers = monitor.timers]_vars

\* C27: within one episode, once the attempts are used up and the failure
\* callback has been called for it, no onReconnect call occurs.
C27_BoundedReconnection ==
    [][OnReconnectCall => ~monitor.exhausted]_vars
\* The step is a removal timer of participant id g removing g's roster
\* entry.
TimerRemoves(g) ==
    /\ evictTimers[g] # <<>>
    /\ evictTimers'[g] = Tail(evictTimers[g])
    /\ MapHas(participants, g)
    /\ ~MapHas(participants', g)

\* C28: a removal timer removes a roster entry only if the connection
\* mapped for that entry is one whose failure has been reported, which is
\* what schedules a timer: an entry whose connection still has its connect
\* timeout armed belongs to a later admission and is left alone.
C28_NoStaleTimer ==
    [][\A g \in Ids :
          TimerRemoves(g)
          => /\ connections[g] # 0
             /\ ~conn[connections[g]].connectionTimeout]_vars
\* C29: when a handleNewParticipant call ends, its connection and data
\* channel are both open to use after a successful admission and both
\* closed after a failure (a throw during the negotiation, the connect
\* timeout), and after a failure neither the roster nor the connection map
\* holds the call's participant id.
C29_ReleaseOnExit ==
    [][\A k \in CallIds :
          /\ (calls[k].pc = "poll" /\ calls'[k].pc = "done")
             => conn'[k].cs # "closed" /\ conn'[k].dc # "closed"
          /\ (calls[k].pc \in {"offer", "poll"} /\ calls'[k].pc \in {"thrown", "timedout"})
             => /\ conn'[k].cs = "closed" /\ conn'[k].dc = "closed"
                /\ ~MapHas(participants', calls[k].pid)
                /\ connections'[calls[k].pid] = 0]_vars
\* Call k waits in the admission loop for a connection that is not
\* established.
Stuck(k) ==
    /\ calls[k].pc = "poll"
    /\ ~(isConnected(conn[k]) \/ relaxedConnected(conn[k]))

\* While a call is stuck the host can take the next message sent to it and
\* can complete every other call whose connection is established.
OthersProcessed ==
    \A k \in CallIds :
        Stuck(k)
        => /\ toHost # <<>> => ENABLED HostReceive
           /\ \A j \in CallIds \ {k} :
                 (calls[j].pc = "poll" /\ (isConnected(conn[j]) \/ relaxedConnected(conn[j])))
                 => ENABLED PollEstablished(j)

\* While a call is stuck the reveal is open to the host whenever it would
\* be with the stuck call's participant left out of the roster.
RevealNotHeldBack ==
    \A k \in CallIds :
        Stuck(k)
        => (updateRoom(MapDelete(participants, calls[k].pid), room).canRevealCards
            => ENABLED RevealCards)

\* C30: while a handleNewParticipant call waits for a connection that is
\* not established, the host takes card selections, completes the
\* admission of other participants, and can change the phase for the
\* admitted participants as if the stuck call were not there.
C30_StuckBlocksNobody == OthersProcessed /\ RevealNotHeldBack
\* The connection mapped for a roster entry reports 'connected', or has
\* ICE connected and its channel open or connecting.
LinkUp(id) ==
    /\ connections[id] # 0
    /\ \/ conn[connections[id]].cs = "connected"
       \/ relaxedConnected(conn[connections[id]])

\* C31: an admitted participant whose link reports 'connected', or has ICE
\* connected with the data channel open or connecting, is shown with
\* connected = true in the host roster.
C31_RelaxedJoinCondition ==
    \A i \in 1..Len(participants) :
        (/\ ~participants[i].isHost
         /\ LinkUp(participants[i].id)
         /\ calls[connections[participants[i].id]].pc = "done")
        => participants[i].connected
\* ------------------------------------------------------------ ICEManager --
\* resolve(this.candidates) of the pending waitForCandidates promise;
\* resolving a settled promise changes nothing.
resolveCandidates(g) ==
    IF g.wait = "waiting"
    THEN [g EXCEPT !.wait = "resolved", !.returned = g.candidates]
    ELSE g

\* checkComplete, the onicegatheringstatechange handler waitForCandidates
\* installs: on 'complete' it clears the timer and resolves.
checkComplete(g) ==
    IF g.wait # "idle" /\ (g.iceGatheringState = "complete" \/ g.gatheringComplete)
    THEN resolveCandidates([g EXCEPT !.timer = FALSE])
    ELSE g

\* ICEManager.waitForCandidates(timeout): resolves at once when the end of
\* candidates has been seen; otherwise arms the timer, installs
\* checkComplete and runs it once.
waitForCandidates(g) ==
    IF g.gatheringComplete
    THEN resolveCandidates([g EXCEPT !.wait = "waiting"])
    ELSE checkComplete([g EXCEPT !.wait = "waiting", !.timer = TRUE, !.elapsed = 0])

\* A waitForCandidates timer whose callback does not resolve.
waitTimerIgnored(g) == [g EXCEPT !.timer = FALSE]

\* The callback of the waitForCandidates timer.
waitTimerFires(g) == resolveCandidates([g EXCEPT !.timer = FALSE])

\* setLocalDescription starts the gathering; icegatheringstatechange fires.
GatheringStarts ==
    /\ gather.iceGatheringState = "new"
    /\ gather' = checkComplete([gather EXCEPT !.iceGatheringState = "gathering"])
    /\ UNCHANGED <<peer, monitor, codec, joinResult, participants, connections, room, page,
                   calls, conn, evictTimers, inbox, toHost, guestRoom, downFor, fresh>>

\* onicecandidate with a candidate.
OnIceCandidate ==
    /\ gather.iceGatheringState = "gathering"
    /\ gather.candidates < MaxCandidates
    /\ gather' = [gather EXCEPT !.candidates = @ + 1]
    /\ UNCHANGED <<peer, monitor, codec, joinResult, participants, connections, room, page,
                   calls, conn, evictTimers, inbox, toHost, guestRoom, downFor, fresh>>

\* The engine finishes gathering: the state becomes 'complete' and
\* icegatheringstatechange fires.
GatheringCompletes ==
    /\ gather.iceGatheringState = "gathering"
    /\ gather' = checkComplete([gather EXCEPT !.iceGatheringState = "complete"])
    /\ UNCHANGED <<peer, monitor, codec, joinResult, participants, connections, room, page,
                   calls, conn, evictTimers, inbox, toHost, guestRoom, downFor, fresh>>

\* onicecandidate with a null candidate, which follows the state change.
EndOfCandidates ==
    /\ gather.iceGatheringState = "complete"
    /\ ~gather.gatheringComplete
    /\ gather' = [gather EXCEPT !.gatheringComplete = TRUE]
    /\ UNCHANGED <<peer, monitor, codec, joinResult, participants, connections, room, page,
                   calls, conn, evictTimers, inbox, toHost, guestRoom, downFor, fresh>>

\* createOfferWithCandidates / createAnswerWithCandidates call
\* waitForCandidates(15000).
WaitForCandidates ==
    /\ gather.wait = "idle"
    /\ gather' = waitForCandidates(gather)
    /\ UNCHANGED <<peer, monitor, codec, joinResult, participants, connections, room, page,
                   calls, conn, evictTimers, inbox, toHost, guestRoom, downFor, fresh>>

\* Time passes while the call waits and its timer is not due.
GatherTick ==
    /\ gather.wait = "waiting"
    /\ gather.elapsed < gatherTimeout
    /\ gather' = [gather EXCEPT !.elapsed =
                     IF @ + gatherTimeout \div GatherSteps >= gatherTimeout
                     THEN gatherTimeout ELSE @ + gatherTimeout \div GatherSteps]
    /\ UNCHANGED <<peer, monitor, codec, joinResult, participants, connections, room, page,
                   calls, conn, evictTimers, inbox, toHost, guestRoom, downFor, fresh>>

\* The timer of the call is due.
WaitTimerFires ==
    /\ gather.timer
    /\ gather.elapsed >= gatherTimeout
    /\ gather' = waitTimerFires(gather)
    /\ UNCHANGED <<peer, monitor, codec, joinResult, participants, connections, room, page,
                   calls, conn, evictTimers, inbox, toHost, guestRoom, downFor, fresh>>

NextGather ==
    \/ GatheringStarts
    \/ OnIceCandidate
    \/ GatheringCompletes
    \/ EndOfCandidates
    \/ WaitForCandidates
    \/ GatherTick
    \/ WaitTimerFires

\* One ICEManager whose engine may or may not finish gathering; time
\* passes and a due timer fires.
SpecGather ==
    Init /\ [][NextGather]_vars /\ WF_vars(GatherTick) /\ WF_vars(WaitTimerFires)

\* C32: a waitForCandidates call always resolves; it resolves with the
\* candidates collected up to then, at the moment the gathering is
\* complete or the 15 s have passed, and it is never left waiting past
\* either.
C32_GatheringEnds ==
    /\ [][/\ gather.wait = "waiting"
             => gather.iceGatheringState # "complete" /\ gather.elapsed <= gatherTimeout
          /\ (gather.wait # "resolved" /\ gather'.wait = "resolved")
             => /\ gather'.returned = gather'.candidates
                /\ \/ gather'.iceGatheringState = "complete"
                   \/ gather'.elapsed >= 15000]_vars
    /\ (gather.wait = "waiting") ~> (gather.wait = "resolved")

\* C32 witness: the call has resolved with no candidate, on its timeout,
\* the engine still gathering.
C32_Witness ==
    /\ gather.wait = "resolved"
    /\ gather.returned = 0
    /\ gather.iceGatheringState = "gathering"
    /\ gather.elapsed >= gatherTimeout
\* ------------------------------------ WebRTCConnection: the remote answer --
\* setRemoteDescription(answer) followed by addIceCandidate for each of the
\* n candidates: the engine takes an answer only in have-local-offer and
\* rejects an answer it cannot parse; a rejection is rethrown.
setRemoteAnswer(p, answer, n, parses) ==
    IF p.signalingState = "have-local-offer" /\ parses
    THEN [p EXCEPT !.signalingState = "stable", !.remoteDescription = answer,
                   !.remoteCandidates = n, !.cs = IF @ = "new" THEN "connecting" ELSE @,
                   !.handled = @ + 1, !.last = "applied"]
    ELSE [p EXCEPT !.handled = @ + 1, !.last = "thrown"]

\* A handleAnswerWithCandidates without the test of the signalling state.
handleAnswerAnyState(p, answer, n, parses) ==
    IF p.cs = "connected"
    THEN [p EXCEPT !.handled = @ + 1, !.last = "returned"]
    ELSE setRemoteAnswer(p, answer, n, parses)

\* WebRTCConnection.handleAnswerWithCandidates(answer, iceCandidates)
handleAnswerWithCandidates(p, answer, n, parses) ==
    IF p.cs = "connected"
    THEN [p EXCEPT !.handled = @ + 1, !.last = "returned"]
    ELSE IF p.signalingState # "have-local-offer"
    THEN [p EXCEPT !.handled = @ + 1, !.last = "returned"]
    ELSE setRemoteAnswer(p, answer, n, parses)

HandleAnswerWithCandidates ==
    /\ peer.handled < MaxAnswerCalls
    /\ \E answer \in 1..MaxAnswers : \E n \in 0..MaxCandidates : \E parses \in BOOLEAN :
          peer' = handleAnswerWithCandidates(peer, answer, n, parses)
    /\ UNCHANGED <<gather, monitor, codec, joinResult, participants, connections, room, page,
                   calls, conn, evictTimers, inbox, toHost, guestRoom, downFor, fresh>>

\* createOfferWithCandidates: setLocalDescription(offer) on a connection
\* with no negotiation under way.
SetLocalOffer ==
    /\ peer.signalingState = "stable"
    /\ peer' = [peer EXCEPT !.signalingState = "have-local-offer"]
    /\ UNCHANGED <<gather, monitor, codec, joinResult, participants, connections, room, page,
                   calls, conn, evictTimers, inbox, toHost, guestRoom, downFor, fresh>>

\* The peer connection changes its connection state.
PeerStateChange ==
    /\ \E state \in NextStates(peer.cs) \ {"closed"} :
          /\ state = "connecting" => peer.remoteDescription # 0
          /\ peer' = [peer EXCEPT !.cs = state]
    /\ UNCHANGED <<gather, monitor, codec, joinResult, participants, connections, room, page,
                   calls, conn, evictTimers, inbox, toHost, guestRoom, downFor, fresh>>

\* WebRTCConnection.close()
ClosePeer ==
    /\ peer.cs # "closed"
    /\ peer' = [peer EXCEPT !.cs = "closed", !.signalingState = "closed"]
    /\ UNCHANGED <<gather, monitor, codec, joinResult, participants, connections, room, page,
                   calls, conn, evictTimers, inbox, toHost, guestRoom, downFor, fresh>>

NextAnswer ==
    \/ HandleAnswerWithCandidates
    \/ SetLocalOffer
    \/ PeerStateChange
    \/ ClosePeer

\* One connection, answers handed to it in every state it can be in.
SpecAnswer == Init /\ [][NextAnswer]_vars

\* The step is a handleAnswerWithCandidates call.
AnswerCall == peer'.handled = peer.handled + 1

\* C33: a handleAnswerWithCandidates call made while the connection is
\* connected or its signalling state is not have-local-offer returns
\* without an error and leaves the remote description, the remote
\* candidates and the states as they are; the remote description and
\* candidates change only by a call made in have-local-offer on a
\* connection that is not connected.
C33_LateAnswersIgnored ==
    [][/\ (AnswerCall /\ (peer.cs = "connected" \/ peer.signalingState # "have-local-offer"))
          => peer' = [peer EXCEPT !.handled = @ + 1, !.last = "returned"]
       /\ (peer'.remoteDescription # peer.remoteDescription
              \/ peer'.remoteCandidates # peer.remoteCandidates)
          => peer.cs # "connected" /\ peer.signalingState = "have-local-offer"]_vars

\* C33 witness: a first answer was applied and the connection is
\* connected; a later call with another answer has returned, and the
\* first answer is still the remote description.
C33_Witness ==
    /\ peer.cs = "connected"
    /\ peer.remoteDescription = 1
    /\ peer.handled >= 2
    /\ peer.last = "returned"
\* The step is guest g taking a game_state_changed message.
TakesBroadcast(g) ==
    /\ guestRoom[g] # NoRoom
    /\ inbox[g] # <<>>
    /\ Head(inbox[g]).type = "game_state_changed"
    /\ inbox'[g] = Tail(inbox[g])

\* C34: after a guest has taken a game_state_changed message, its
\* replica's phase, round, deck, results and roster - its own entry
\* included - are those of the message, whatever the replica held before.
C34_WholesaleReplacement ==
    [][\A g \in Guests :
          TakesBroadcast(g)
          => /\ guestRoom'[g].gameState = Head(inbox[g]).gameState
             /\ guestRoom'[g].currentRound = Head(inbox[g]).currentRound
             /\ guestRoom'[g].cards = Head(inbox[g]).cards
             /\ guestRoom'[g].results = Head(inbox[g]).results
             /\ guestRoom'[g].participants = Head(inbox[g]).participants]_vars

\* C34 witness: guest g1 has sent its card, which the host has not yet
\* taken, and has since taken the broadcast of g2's selection, made before
\* the host knew of g1's: its replica shows g2's card and g1 without a
\* selection during the vote.
C34_Witness ==
    /\ guestRoom["g1"] # NoRoom
    /\ guestRoom["g1"].gameState = "voting"
    /\ MapHas(guestRoom["g1"].participants, "g1")
    /\ MapGet(guestRoom["g1"].participants, "g1").selectedCard = NoCard
    /\ MapHas(guestRoom["g1"].participants, "g2")
    /\ MapGet(guestRoom["g1"].participants, "g2").selectedCard # NoCard
    /\ guestRoom["g1"].participants = WireList(participants)
    /\ inbox["g1"] = <<>>
    /\ toHost # <<>>
    /\ Head(toHost).type = "card_selected"
    /\ calls[Head(toHost).conn].pid = "g1"
    /\ room.gameState = "voting"
\* Two guests admitted over a working network, the host's controls, the
\* guests' own selections, and card_selected messages with a foreign
\* senderId sent on either connection.
NextSender ==
    \/ \E g \in Guests : JoinRoomFromLink(g)
    \/ \E g \in Guests : FirstCode(g) /\ HandleNewParticipant(g)
    \/ Negotiation
    \/ Transport
    \/ StartVoting
    \/ RevealCards
    \/ Messages(Guests, Hand)
    \/ \E c \in CallIds : \E senderId \in Ids : PeerSendsCard(c, senderId, "8")

SpecSender == Init /\ [][NextSender]_vars

\* The step is the host taking a message sent to it.
HostTakes == toHost # <<>> /\ toHost' = Tail(toHost)

\* C35: the host taking a message that came in on participant P's
\* connection leaves the phase, round, deck and results as they are, adds
\* and removes no roster entry, and changes at most the selectedCard of
\* P's own entry, whatever senderId the message carries.
C35_FollowersCannotWrite ==
    [][HostTakes
       => /\ room' = room
          /\ Len(participants') = Len(participants)
          /\ \A i \in 1..Len(participants) :
                IF participants[i].id = calls[Head(toHost).conn].pid
                THEN [participants'[i] EXCEPT !.selectedCard = participants[i].selectedCard]
                        = participants[i]
                ELSE participants'[i] = participants[i]]_vars

\* C35 witness: the host has taken a card_selected message for card 8 that
\* came in on g1's connection under another senderId: g1's entry holds
\* the card and no other entry holds a selection.
C35_Witness ==
    /\ toHost = <<>>
    /\ MapHas(participants, "g1") /\ MapGet(participants, "g1").selectedCard = "8"
    /\ MapHas(participants, "g2")
    /\ \A i \in 1..Len(participants) :
          participants[i].id # "g1" => participants[i].selectedCard = NoCard
\* Admission of two guests with every way a negotiation and a connection
\* can go, eviction, and the host's cleanup.
NextCleanup ==
    \/ Joining(Guests)
    \/ Negotiation
    \/ NegotiationFailure
    \/ Transport
    \/ Timers
    \/ Cleanup

SpecCleanup == Init /\ [][NextCleanup]_vars

\* C36: the ids of the non-host roster entries are the ids the connection
\* map holds a connection for.
C36_RosterAndConnectionsInStep ==
    {participants[i].id : i \in {j \in 1..Len(participants) : ~participants[j].isHost}}
        = {id \in Ids : connections[id] # 0}
\* One guest admitted once, a connection that gets established, flaps or
\* fails, the monitor's connect timeout, and the removal timers.
NextFlap ==
    \/ JoinRoomFromLink("g1")
    \/ FirstCode("g1") /\ HandleNewParticipant("g1")
    \/ Negotiation
    \/ Transport
    \/ Flapping
    \/ \E c \in CallIds : MonitorTimeout(c)
    \/ Timers

SpecFlap == Init /\ [][NextFlap]_vars

\* C37: every non-host roster entry shown with connected = true has a
\* mapped connection that passes isConnected, the test broadcastToAll
\* applies before it sends.
C37_ConnectedNeverSkipped ==
    \A i \in 1..Len(participants) :
        (~participants[i].isHost /\ participants[i].connected)
        => /\ connections[participants[i].id] # 0
           /\ isConnected(conn[connections[participants[i].id]])
\* C38: the room holds results exactly while its phase is revealed.
C38_ResultsExactlyInRevealed ==
    (room.results # NoResults) <=> (room.gameState = "revealed")

\* C38 witness: a round was revealed and the next round begun: the room
\* waits in round 2 without results.
C38_Witness ==
    /\ room.currentRound = 2
    /\ room.gameState = "waiting"
    /\ room.results = NoResults
\* The reactions a guest may send.
Emojis == {"thumb", "heart"}

\* Two guests admitted over a working network, sending reactions.
NextEmoji ==
    \/ \E g \in Guests : JoinRoomFromLink(g)
    \/ \E g \in Guests : FirstCode(g) /\ HandleNewParticipant(g)
    \/ Negotiation
    \/ Transport
    \/ HostReceive
    \/ \E g \in Guests : GuestReceive(g)
    \/ \E g \in Guests : \E emoji \in Emojis : SendEmoji(g, emoji)

SpecEmoji == Init /\ [][NextEmoji]_vars

\* The mapped connection of id is up with an open channel.
OpenLink(id) ==
    /\ connections[id] # 0
    /\ conn[connections[id]].dc = "open"
    /\ conn[connections[id]].cs = "connected" \/ conn[connections[id]].ice = "connected"

\* Queue after is queue before with msg handed to the channel.
Handed(before, after, msg) ==
    /\ after # <<>>
    /\ after[Len(after)] = msg
    /\ SubSeq(after, 1, Len(after) - 1) \in {before, IF before = <<>> THEN <<>> ELSE Tail(before)}

\* C39: when the host takes an emoji_sent message that came in on
\* participant P's connection, the message goes, with its emoji and
\* senderId as they came, to every other id whose connection is up with
\* an open channel, nothing goes to P or to anyone else, and roster, room
\* and page stay as they are.
C39_ReactionRelay ==
    [][(HostTakes /\ Head(toHost).type = "emoji_sent")
       => /\ UNCHANGED <<participants, room, page, connections, conn>>
          /\ \A id \in Ids :
                IF id # calls[Head(toHost).conn].pid /\ OpenLink(id)
                THEN Handed(inbox[id], inbox'[id],
                            [type |-> "emoji_sent", emoji |-> Head(toHost).emoji,
                             senderId |-> Head(toHost).senderId])
                ELSE inbox'[id] = inbox[id]]_vars

\* C39 witness: g1's heart has been relayed: it is the next message g2
\* takes, and nothing is on the way to g1 or to the host.
C39_Witness ==
    /\ toHost = <<>>
    /\ inbox["g1"] = <<>>
    /\ inbox["g2"] # <<>>
    /\ Head(inbox["g2"]) = EmojiMessage("heart", "g1")
\* The connect timeout reports a failure in this step.
TimeoutReport == monitor'.timeoutReports # monitor.timeoutReports

\* The connection reports state in this step.
Reports(state) == monitor.cs # state /\ monitor'.cs = state

\* C40: the connect timeout reports a failure only when it is pending and
\* the peer connection is in 'connecting'; a report of connected, failed
\* or closed leaves no timeout pending, and no step starts one again; so
\* the timeout reports at most once, and never once the connection has
\* reported connected.
C40_ConnectTimeout ==
    /\ [][TimeoutReport => /\ monitor.connectionTimeout
                           /\ monitor.cs = "connecting"
                           /\ monitor'.timeoutReports = monitor.timeoutReports + 1
                           /\ ~monitor'.connectionTimeout]_vars
    /\ [][\A state \in {"connected", "failed", "closed"} :
             Reports(state) => ~monitor'.connectionTimeout]_vars
    /\ [][~monitor.connectionTimeout => ~monitor'.connectionTimeout]_vars
    /\ [](monitor.timeoutReports <= 1)
    /\ \A n \in 0..1 :
          [](monitor.cs = "connected" /\ monitor.timeoutReports = n
             => [](monitor.timeoutReports = n))

\* C40 witness: the connect timeout has reported a connection that stayed
\* in 'connecting', and the connection has connected afterwards.
C40_Witness ==
    /\ monitor.timeoutReports = 1
    /\ monitor.cs = "connected"
    /\ ~monitor.connectionTimeout
====
